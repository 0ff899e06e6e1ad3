--------------------------- MODULE SchedulerProofs ---------------------------
(* Theorems about Scheduler, for every value of its constants.               *)
EXTENDS Scheduler, FiniteSetTheorems, TLAPS

(* The poll never claims more than the bound on runs leaves room for.        *)
Room == spawned + Len(poll.claimed) <= MaxRuns

(* What the program counter of a run says about the rows of its attempts and *)
(* about the events published for them.  It is the inductive form of         *)
(* NoOrphanRow, ReturnedRunsSettled, DeletedTaskIsGone and of the refinement.*)
RowOf(r, j)  == row[<<r, j>>]
ToldOf(r, j) == told[<<r, j>>]
At(r, P)     == run[r].pc \in P
Over         == Terminal \cup {"deleted"}
Retried      == {"failed", "timeout"}

Birth(r) ==
  /\ run[r].pc = "unborn" <=> r > spawned
  /\ run[r].exit = "none" <=> At(r, Live \cup {"unborn"})
  /\ ~At(r, {"unborn"}) => run[r].task \in Tasks
  /\ up = "down" => ~At(r, Live \cup {"done"})

Untouched(r) ==
  /\ At(r, {"unborn", "waiting", "creating"}) =>
        run[r].attempt = 0 /\ \A j \in Attempts : RowOf(r, j) = "absent"
  /\ At(r, {"created"}) => run[r].attempt = 0
  /\ At(r, Live) => \A j \in Attempts : j > run[r].attempt => RowOf(r, j) = "absent"

Past(r) ==
  /\ At(r, Live) => \A j \in Attempts : j < run[r].attempt => RowOf(r, j) \in Over
  /\ At(r, InTry) => \A j \in Attempts : j < run[r].attempt => Settled(<<r, j>>)
  /\ At(r, InHandler) => RowOf(r, 0) # "absent"

Present(r) ==
  LET k == run[r].attempt  v == run[r].verdict
  IN  /\ At(r, {"created", "loading", "sleeping"}) => RowOf(r, k) \in {"pending", "deleted"}
      /\ At(r, {"running"}) => RowOf(r, k) = "pending"
      /\ At(r, {"committed", "refused"}) =>
            v \in Terminal /\ RowOf(r, k) \in {v, "deleted"} /\ ToldOf(r, k) = "none"
      /\ At(r, {"notifying", "refuseNotifying"}) =>
            v \in Terminal /\ RowOf(r, k) \in {v, "deleted"} /\ ToldOf(r, k) = v
      /\ At(r, {"committed", "notifying"}) => v \in Retried \cup {"completed"}
      /\ At(r, {"retrying"}) =>
            /\ k < MaxRetries
            /\ RowOf(r, k) \in Retried \cup {"deleted"} /\ Settled(<<r, k>>)
      /\ At(r, {"aborted"}) =>
            v = "cancelled" /\ RowOf(r, 0) \in {v, "deleted"} /\ ToldOf(r, 0) = "none"

Afterwards(r) ==
  /\ run[r].exit = "returned" =>
        \A j \in Attempts : RowOf(r, j) = "absent" \/ Settled(<<r, j>>)
  /\ run[r].exit = "killed" /\ up # "down" =>
        \A j \in Attempts : RowOf(r, j) # "pending"

Heard(r) == \A j \in Attempts : ToldOf(r, j) # "none" => RowOf(r, j) \in {ToldOf(r, j), "deleted"}

Erased(r) == run[r].task \in Tasks \ tasks =>
  /\ run[r].pc # "running"
  /\ \A j \in Attempts : RowOf(r, j) \in {"absent", "deleted"}

(* The loop and the requests live and die with the process.                  *)
Awake == up # "up" => poll.pc = "idle" /\ \A c \in Clients : client[c].pc = "idle"

(* A request that has begun names a task.                                    *)
Asking == \A c \in Clients : client[c].pc # "idle" => client[c].task \in Tasks

RunInv(r) ==
  /\ Birth(r) /\ Untouched(r) /\ Past(r) /\ Present(r)
  /\ Afterwards(r) /\ Heard(r) /\ Erased(r)

IInv == TypeOK /\ Room /\ Asking /\ Awake /\ \A r \in Runs : RunInv(r)

-----------------------------------------------------------------------------
(* Facts about the helpers.                                                  *)

PC == {"unborn"} \cup Live \cup Ended

(* Changing fields of a run within their ranges.                             *)
LEMMA RunFields ==
  ASSUME NEW x \in RunState, NEW p \in PC, NEW s \in {"none"} \cup Terminal,
         NEW i \in {0} \cup Runs
  PROVE  /\ [x EXCEPT !.executionId = i, !.pc = p] \in RunState
         /\ [x EXCEPT !.verdict = s, !.pc = p] \in RunState
BY DEF RunState, PC

LEMMA GotoType ==
  ASSUME TypeOK, NEW r \in Runs, NEW p \in PC, Goto(r, p)
  PROVE  run' \in [Runs -> RunState]
BY DEF TypeOK, Goto, RunState, PC

Exits == {"returned", "cancelled", "error", "killed"}

LEMMA EndedAsType ==
  ASSUME TypeOK, NEW r \in Runs, NEW p \in Ended, NEW how \in Exits \cup {"none"}
  PROVE  EndedAs(r, p, how) \in RunState
<1>1. 0 \in Attempts
  BY ConstantsOK DEF Attempts
<1>2. run[r] \in RunState
  BY DEF TypeOK
<1>3. QED BY <1>1, <1>2 DEF EndedAs, RunState, Exits, Cancels

LEMMA LeaveType ==
  ASSUME TypeOK, NEW r \in Runs, NEW how \in Exits, Leave(r, how)
  PROVE  run' \in [Runs -> RunState]
<1>1. EndedAs(r, "done", how) \in RunState
  BY EndedAsType DEF Ended
<1>2. QED BY <1>1 DEF Leave, TypeOK

LEMMA CancelRunType ==
  ASSUME TypeOK, NEW r \in Runs, CancelRun(r)
  PROVE  run' \in [Runs -> RunState]
BY DEF TypeOK, CancelRun, RunState, Cancels

LEMMA SpawnType ==
  ASSUME TypeOK, NEW q \in Seq(Tasks), spawned + Len(q) <= MaxRuns, Spawn(q)
  PROVE  /\ run' \in [Runs -> RunState]
         /\ spawned' \in 0..MaxRuns
         /\ spawned' = spawned + Len(q)
         /\ registry' \in [Tasks -> {0} \cup Runs]
<1>0. /\ Len(q) \in Nat /\ DOMAIN q = 1..Len(q)
      /\ \A i \in 1..Len(q) : q[i] \in Tasks
      /\ spawned \in Nat /\ MaxRuns \in Nat
  BY ConstantsOK DEF TypeOK, Runs
<1>1. spawned' \in 0..MaxRuns /\ spawned' = spawned + Len(q)
  <2>1. spawned' = spawned + Len(q)
    BY DEF Spawn
  <2>2. QED BY <2>1, <1>0
<1>2. run' \in [Runs -> RunState]
  <2>1. ASSUME NEW r \in Runs, r - spawned \in DOMAIN q
        PROVE  [Unborn EXCEPT !.task = q[r - spawned], !.pc = "waiting"] \in RunState
    <3>1. q[r - spawned] \in Tasks
      BY <1>0, <2>1
    <3>2. 0 \in Attempts
      BY ConstantsOK DEF Attempts
    <3>3. QED BY <3>1, <3>2 DEF Unborn, RunState, Live, Cancels
  <2>2. QED BY <2>1 DEF TypeOK, Spawn
<1>3. registry' \in [Tasks -> {0} \cup Runs]
  <2>1. ASSUME NEW t \in Tasks, \E i \in DOMAIN q : q[i] = t
        PROVE  spawned + (CHOOSE i \in DOMAIN q : q[i] = t) \in Runs
    <3>1. (CHOOSE i \in DOMAIN q : q[i] = t) \in 1..Len(q)
      BY <2>1, <1>0
    <3>2. QED BY <3>1, <1>0 DEF Runs
  <2>2. QED BY <2>1 DEF TypeOK, Spawn
<1>4. QED BY <1>1, <1>2, <1>3

-----------------------------------------------------------------------------
(* Type correctness.                                                         *)

LEMMA CountsTasks ==
  ASSUME NEW S \in SUBSET Tasks
  PROVE  Cardinality(S) \in Nat
BY ConstantsOK, FS_Subset, FS_CardinalityType

LEMMA RowsType ==
  ASSUME NEW r \in Runs, NEW k \in Attempts
  PROVE  <<r, k>> \in Rows
BY DEF Rows

LEMMA ZeroAttempt == 0 \in Attempts
BY ConstantsOK DEF Attempts

LEMMA ListType ==
  ASSUME NEW S, NEW n \in Nat, NEW q \in [1..n -> S]
  PROVE  q \in Seq(S) /\ Len(q) = n
OBVIOUS

LEMMA IdleType == ClientIdle \in Request /\ PollIdle \in PollState
<1>1. ClientIdle \in Request
  BY ZeroAttempt DEF ClientIdle, Request
<1>2. <<>> \in Seq(Tasks) /\ 0 \in 0..MaxConcurrentTasks
  BY ConstantsOK
<1>3. PollIdle \in PollState
  BY <1>2 DEF PollIdle, PollState
<1>4. QED BY <1>1, <1>3

LEMMA InitType == Init => TypeOK /\ Room
<1> SUFFICES ASSUME Init PROVE TypeOK /\ Room
  OBVIOUS
<1>1. run \in [Runs -> RunState]
  BY ZeroAttempt DEF Init, Unborn, RunState, Cancels
<1>2. /\ row \in [Rows -> Status] /\ told \in [Rows -> {"none"} \cup Terminal]
      /\ registry \in [Tasks -> {0} \cup Runs]
      /\ tasks \in SUBSET Tasks /\ due \in SUBSET Tasks /\ up \in {"up", "stopping", "down"}
  BY DEF Init, Status
<1>3. poll \in PollState /\ client \in [Clients -> Request]
  BY IdleType DEF Init
<1>4. spawned \in 0..MaxRuns /\ Room
  BY ConstantsOK DEF Init, Room, PollIdle
<1>5. QED BY <1>1, <1>2, <1>3, <1>4 DEF TypeOK

(* A step inside one run.                                                    *)
LEMMA RunStepType ==
  ASSUME TypeOK, Room, NEW r \in Runs, RunInv(r), RunStep(r) \/ DatabaseError(r)
  PROVE  TypeOK' /\ Room'
<1>1. /\ UNCHANGED <<up, tasks, due, spawned, poll, client>>
  BY DEF RunStep, DatabaseError, Elsewhere, Acquire, CreateExecution, PublishId, LoadPair,
         CommitAttempt, Emit, EmitFor, Decide, RefuseDone, CreateRetry, RetryPause,
         Interrupted, CancelExecution, AbortDone, Finished
<1>2. run[r] \in RunState /\ Current(r) \in Rows /\ First(r) \in Rows
  BY ZeroAttempt DEF TypeOK, RunState, Current, First, Rows
<1>3. run' \in [Runs -> RunState]
  <2>1. \A p \in Live \cup Ended : Goto(r, p) => run' \in [Runs -> RunState]
    BY GotoType DEF PC
  <2>2. \A how \in Exits : Leave(r, how) => run' \in [Runs -> RunState]
    BY LeaveType
  <2>3. CASE Acquire(r) \/ RetryPause(r) \/ RefuseDone(r) \/ AbortDone(r) \/ DatabaseError(r)
             \/ Finished(r) \/ CreateExecution(r)
    BY <2>1, <2>2, <2>3 DEF Acquire, RetryPause, RefuseDone, AbortDone, DatabaseError,
       Finished, CreateExecution, Live, Ended, InCreate, InTry, Exits
  <2>4. CASE Emit(r)
    BY <2>1, <2>4 DEF Emit, EmitFor, Live, InTry, InHandler
  <2>5. CASE PublishId(r)
    <3>1. ASSUME NEW q \in Runs, NEW i \in {0} \cup Runs, NEW p \in PC
          PROVE  [run[q] EXCEPT !.executionId = i, !.pc = p] \in RunState
      BY RunFields DEF TypeOK
    <3>2. \A q \in Runs : run[q].executionId \in {0} \cup Runs /\ run[q].pc \in PC
      BY DEF TypeOK, RunState, PC
    <3>3. "loading" \in PC
      BY DEF PC, Live, InTry
    <3>4. QED BY <2>5, <3>1, <3>2, <3>3 DEF PublishId
  <2>6. CASE LoadPair(r)
    BY <2>1, <2>2, <2>6 DEF LoadPair, TypeOK, RunState, Live, InTry, Exits, Terminal
  <2>7. CASE CommitAttempt(r)
    <3>1. PICK s \in {"completed", "failed", "timeout"} :
            run' = [run EXCEPT ![r].verdict = s, ![r].pc = "committed"]
      BY <2>7 DEF CommitAttempt
    <3>2. s \in {"none"} \cup Terminal /\ "committed" \in PC
      BY DEF Terminal, Live, InTry, PC
    <3>3. [run[r] EXCEPT !.verdict = s, !.pc = "committed"] \in RunState
      BY <1>2, <3>2, RunFields
    <3>4. QED BY <3>1, <3>3 DEF TypeOK
  <2>8. CASE Decide(r)
    BY <2>2, <2>8 DEF Decide, TypeOK, RunState, Live, InTry, Exits
  <2>9. CASE CreateRetry(r)
    <3>1. run[r].pc = "retrying" /\ run[r].attempt < MaxRetries
      BY <2>9 DEF CreateRetry, Proceeds, RunInv, Present, At
    <3>2. run[r].attempt + 1 \in Attempts
      BY <1>2, <3>1, ConstantsOK DEF RunState, Attempts
    <3>3. QED BY <2>2, <2>9, <3>2 DEF CreateRetry, TypeOK, RunState, Live, InTry, Exits
  <2>10. CASE Interrupted(r)
    BY <2>2, <2>10 DEF Interrupted, TypeOK, RunState, Live, InHandler, Exits, Cancels
  <2>11. CASE CancelExecution(r)
    BY <2>2, <2>11 DEF CancelExecution, TypeOK, RunState, Live, InHandler, Exits, Terminal
  <2>12. QED BY <2>3, <2>4, <2>5, <2>6, <2>7, <2>8, <2>9, <2>10, <2>11 DEF RunStep
<1>4. row' \in [Rows -> Status] /\ told' \in [Rows -> {"none"} \cup Terminal]
  <2>1. run[r].verdict \in {"none"} \cup Terminal
    BY <1>2 DEF RunState
  <2>2. /\ row' = row \/ \E e \in Rows, s \in Status : row' = [row EXCEPT ![e] = s]
        /\ told' = told \/ \E e \in Rows : told' = [told EXCEPT ![e] = run[r].verdict]
    <3>1. CASE Acquire(r) \/ PublishId(r) \/ Decide(r) \/ RefuseDone(r) \/ RetryPause(r)
               \/ Interrupted(r) \/ AbortDone(r) \/ Finished(r) \/ DatabaseError(r)
      BY <3>1 DEF Acquire, PublishId, Decide, RefuseDone, RetryPause, Interrupted,
                  AbortDone, Finished, DatabaseError
    <3>2. CASE Emit(r)
      BY <3>2, <1>2 DEF Emit, EmitFor
    <3>3. CASE CreateExecution(r) \/ LoadPair(r) \/ CancelExecution(r)
      BY <3>3, <1>2 DEF CreateExecution, LoadPair, CancelExecution, Status, Terminal
    <3>4. CASE CommitAttempt(r)
      BY <3>4, <1>2 DEF CommitAttempt, Status, Terminal
    <3>5. CASE CreateRetry(r)
      <4>1. run[r].pc = "retrying" /\ run[r].attempt < MaxRetries
        BY <3>5 DEF CreateRetry, Proceeds, RunInv, Present, At
      <4>2. <<r, run[r].attempt + 1>> \in Rows
        BY <1>2, <4>1, ConstantsOK DEF RunState, Attempts, Rows
      <4>3. QED BY <3>5, <4>2 DEF CreateRetry, Status
    <3>6. QED BY <3>1, <3>2, <3>3, <3>4, <3>5 DEF RunStep
  <2>3. row' \in [Rows -> Status] /\ told' \in [Rows -> {"none"} \cup Terminal]
    BY <2>1, <2>2 DEF TypeOK
  <2>4. QED BY <2>3
<1>5. registry' \in [Tasks -> {0} \cup Runs]
  BY DEF TypeOK, RunStep, DatabaseError, Acquire, CreateExecution,
         PublishId, LoadPair, CommitAttempt, Emit, EmitFor, Decide, RefuseDone, CreateRetry,
         RetryPause, Interrupted, CancelExecution, AbortDone, Finished
<1>6. QED BY <1>1, <1>3, <1>4, <1>5 DEF TypeOK, Room

(* The end of the process.                                                   *)
LEMMA VanishType ==
  ASSUME TypeOK, Room, Vanish
  PROVE  TypeOK' /\ Room'
<1>1. ASSUME NEW r \in Runs
      PROVE  run'[r] \in RunState
  <2>1. CASE run[r].pc = "unborn"
    BY <2>1, ZeroAttempt DEF Vanish, Unborn, RunState, Cancels
  <2>2. CASE run[r].pc # "unborn"
    <3>1. run[r].exit \in Exits \cup {"none"}
      BY DEF TypeOK, RunState, Exits
    <3>2. \A how \in Exits \cup {"none"} : EndedAs(r, "gone", how) \in RunState
      BY EndedAsType DEF Ended
    <3>3. \A x \in RunState : [x EXCEPT !.executionId = 0] \in RunState
      BY DEF RunState
    <3>4. "killed" \in Exits
      BY DEF Exits
    <3>5. QED BY <2>2, <3>1, <3>2, <3>3, <3>4 DEF Vanish
  <2>3. QED BY <2>1, <2>2
<1>2. run' \in [Runs -> RunState]
  BY <1>1 DEF Vanish
<1>3. poll' \in PollState /\ client' \in [Clients -> Request] /\ Len(poll'.claimed) = 0
  BY IdleType DEF Vanish, PollIdle
<1>4. spawned' \in 0..MaxRuns /\ Room'
  BY <1>3, ConstantsOK DEF TypeOK, Room, Vanish
<1>5. QED BY <1>2, <1>3, <1>4 DEF TypeOK, Vanish, database

(* The process and the clock.                                                *)
LEMMA ProcessType ==
  ASSUME TypeOK, Room, Start \/ Stop \/ \E t \in Tasks : Tick(t)
  PROVE  TypeOK' /\ Room'
<1>1. CASE Start
  <2>1. row' \in [Rows -> Status]
    BY <1>1 DEF TypeOK, Start, Status, Terminal
  <2>2. QED BY <1>1, <2>1 DEF TypeOK, Start, Room
<1>2. CASE Stop
  <2>1. \A x \in RunState : [x EXCEPT !.cancel = "requested"] \in RunState
    BY DEF RunState, Cancels
  <2>2. run' \in [Runs -> RunState]
    BY <1>2, <2>1 DEF TypeOK, Stop
  <2>3. poll' \in PollState /\ Len(poll'.claimed) = 0
    BY <1>2, IdleType DEF Stop, PollIdle
  <2>4. Room'
    BY <1>2, <2>3, ConstantsOK DEF Stop, Room, TypeOK
  <2>5. QED BY <1>2, <2>2, <2>3, <2>4 DEF TypeOK, Stop, database
<1>3. CASE \E t \in Tasks : Tick(t)
  BY <1>3 DEF TypeOK, Tick, Room
<1>4. QED BY <1>1, <1>2, <1>3

(* The polling loop.                                                         *)
LEMMA PollType ==
  ASSUME TypeOK, Room, PollSnapshot \/ PollClaim \/ PollError \/ PollSpawn
  PROVE  TypeOK' /\ Room'
<1>0. /\ spawned \in Nat /\ MaxRuns \in Nat /\ MaxConcurrentTasks \in Nat
      /\ PollIdle \in PollState /\ Len(PollIdle.claimed) = 0
  BY IdleType, ConstantsOK DEF TypeOK, PollIdle
<1>1. CASE PollSnapshot
  <2>1. Registered \in SUBSET Tasks /\ Cardinality(Registered) \in Nat
    BY CountsTasks DEF Registered
  <2>2. MaxConcurrentTasks - Cardinality(Registered) \in 0..MaxConcurrentTasks
    BY <1>1, <1>0, <2>1 DEF PollSnapshot
  <2>3. poll' \in PollState /\ Len(poll'.claimed) = 0
    BY <1>1, <2>1, <2>2 DEF PollSnapshot, PollState
  <2>4. QED BY <1>0, <1>1, <2>3 DEF PollSnapshot, TypeOK, Room, database
<1>2. CASE PollClaim
  <2> DEFINE eligible == due \ poll.excluded
             n == MinOf(MinOf(poll.slots, Cardinality(eligible)), MaxRuns - spawned)
  <2>1. PICK q \in Orders(eligible, n) :
          /\ due' = due \ {q[i] : i \in 1..n}
          /\ poll' = IF n = 0 THEN PollIdle
                     ELSE [poll EXCEPT !.pc = "claimed", !.claimed = q]
    BY <1>2 DEF PollClaim
  <2>2. n \in Nat /\ spawned + n <= MaxRuns
    <3>1. eligible \in SUBSET Tasks
      BY DEF TypeOK
    <3>2. Cardinality(eligible) \in Nat /\ poll.slots \in Nat
      BY <3>1, CountsTasks, ConstantsOK DEF TypeOK, PollState
    <3>3. spawned <= MaxRuns
      BY DEF TypeOK
    <3>4. QED BY <1>0, <3>2, <3>3 DEF MinOf
  <2>3. q \in Seq(Tasks) /\ Len(q) = n
    <3>1. q \in [1..n -> Tasks]
      BY <2>1 DEF Orders, TypeOK
    <3>2. QED BY <2>2, <3>1, ListType
  <2>4. poll' \in PollState /\ spawned + Len(poll'.claimed) <= MaxRuns
    <3>1. CASE n = 0
      <4>1. poll' = PollIdle
        BY <2>1, <3>1
      <4>2. spawned <= MaxRuns
        BY DEF TypeOK
      <4>3. QED BY <4>1, <4>2, <1>0
    <3>2. CASE n # 0
      <4>1. poll' = [poll EXCEPT !.pc = "claimed", !.claimed = q]
        BY <2>1, <3>2
      <4>2. poll \in PollState
        BY DEF TypeOK
      <4>3. QED BY <4>1, <4>2, <2>2, <2>3 DEF PollState
    <3>3. QED BY <3>1, <3>2
  <2>5. due' \in SUBSET Tasks
    BY <2>1 DEF TypeOK
  <2>6. QED BY <1>2, <2>4, <2>5 DEF PollClaim, TypeOK, Room
<1>3. CASE PollError
  BY <1>0, <1>3 DEF PollError, TypeOK, Room, database
<1>4. CASE PollSpawn
  <2>1. poll.claimed \in Seq(Tasks) /\ spawned + Len(poll.claimed) <= MaxRuns
    BY DEF TypeOK, PollState, Room
  <2>2. Spawn(poll.claimed)
    BY <1>4 DEF PollSpawn
  <2>3. /\ run' \in [Runs -> RunState] /\ spawned' \in 0..MaxRuns
        /\ registry' \in [Tasks -> {0} \cup Runs]
    BY <2>1, <2>2, SpawnType
  <2>4. Room'
    <3>1. poll' = PollIdle
      BY <1>4 DEF PollSpawn
    <3>2. spawned' \in Nat /\ spawned' <= MaxRuns
      BY <1>0, <2>3
    <3>3. QED BY <1>0, <3>1, <3>2 DEF Room
  <2>5. QED BY <1>0, <1>4, <2>3, <2>4 DEF PollSpawn, TypeOK, database
<1>5. QED BY <1>1, <1>2, <1>3, <1>4

(* The API requests.                                                         *)
LEMMA RequestType ==
  ASSUME TypeOK, Room, Asking, NEW c \in Clients, ClientStep(c),
         \A r \in Runs : run[r].pc = "unborn" => \A j \in Attempts : RowOf(r, j) = "absent",
         \A r \in Runs : run[r].pc # "unborn" => run[r].task \in Tasks
  PROVE  TypeOK' /\ Room' /\ Asking'
<1>0. /\ ClientIdle \in Request /\ ClientIdle.pc = "idle"
      /\ poll \in PollState /\ client[c] \in Request
  BY IdleType DEF TypeOK, ClientIdle
<1>1. ASSUME NEW x \in Request, x.pc # "idle" => x.task \in Tasks,
             client' = [client EXCEPT ![c] = x]
      PROVE  client' \in [Clients -> Request] /\ Asking'
  BY <1>1 DEF TypeOK, Asking
<1>2. ASSUME client' = [client EXCEPT ![c] = ClientIdle]
      PROVE  client' \in [Clients -> Request] /\ Asking'
  BY <1>0, <1>1, <1>2
<1>3. ASSUME NEW t \in Tasks, Trigger(c, t)
      PROVE  TypeOK' /\ Room' /\ Asking'
  <2> DEFINE x == [ClientIdle EXCEPT !.pc = "triggering", !.task = t]
  <2>1. x \in Request /\ x.task \in Tasks
    BY <1>0, <1>3 DEF Request
  <2>2. client' \in [Clients -> Request] /\ Asking'
    BY <1>1, <1>3, <2>1 DEF Trigger
  <2>3. QED BY <1>3, <2>2 DEF Trigger, TypeOK, Room, database
<1>4. ASSUME NEW t \in Tasks, DeleteTask(c, t)
      PROVE  TypeOK' /\ Room' /\ Asking'
  <2> DEFINE r == IF t \in Registered /\ IsLive(registry[t]) THEN registry[t] ELSE 0
             x == [pc |-> "deleting", task |-> t, run |-> r, att |-> 0]
  <2>1. r \in {0} \cup Runs
    BY <1>4 DEF TypeOK
  <2>2. x \in Request /\ x.task \in Tasks
    BY <1>4, <2>1, ZeroAttempt DEF Request
  <2>3. client' \in [Clients -> Request] /\ Asking'
    BY <1>1, <1>4, <2>2 DEF DeleteTask
  <2>4. run' \in [Runs -> RunState]
    BY <1>4, <2>1, CancelRunType DEF DeleteTask, TypeOK
  <2>5. QED BY <1>4, <2>3, <2>4 DEF DeleteTask, TypeOK, Room, database
<1>5. ASSUME NEW e \in Rows, ReadExecution(c, e)
      PROVE  TypeOK' /\ Room' /\ Asking'
  <2> DEFINE x == [pc |-> "cancelling", task |-> run[e[1]].task, run |-> e[1], att |-> e[2]]
  <2>1. e[1] \in Runs /\ e[2] \in Attempts /\ e = <<e[1], e[2]>> /\ row[e] = "pending"
    BY <1>5 DEF Rows, ReadExecution
  <2>2. run[e[1]].task \in Tasks
    BY <2>1 DEF RowOf
  <2>3. x \in Request
    BY <2>1, <2>2 DEF Request
  <2>4. client' \in [Clients -> Request] /\ Asking'
    BY <1>1, <1>5, <2>2, <2>3 DEF ReadExecution
  <2>5. QED BY <1>5, <2>4 DEF ReadExecution, TypeOK, Room, database
<1>6. CASE ExecuteTaskNow(c)
  <2>1. CASE \/ client[c].task \in Registered
             \/ Cardinality(Registered) >= MaxConcurrentTasks
    <3>1. /\ client' = [client EXCEPT ![c] = ClientIdle]
          /\ UNCHANGED <<registry, spawned, run>>
      BY <1>6, <2>1 DEF ExecuteTaskNow
    <3>2. QED BY <1>2, <1>6, <3>1 DEF ExecuteTaskNow, TypeOK, Room, database
  <2>2. CASE ~(\/ client[c].task \in Registered
               \/ Cardinality(Registered) >= MaxConcurrentTasks)
    <3>1. /\ CanSpawn(1 + Len(poll.claimed)) /\ Spawn(<<client[c].task>>)
          /\ client' = [client EXCEPT ![c].pc = "awaiting", ![c].run = spawned + 1]
          /\ client[c].pc = "triggering" /\ UNCHANGED <<up, database, told, poll>>
      BY <1>6, <2>2 DEF ExecuteTaskNow
    <3> DEFINE q == <<client[c].task>>
    <3>2. q \in Seq(Tasks) /\ Len(q) = 1 /\ Len(poll.claimed) \in Nat
      BY <1>0, <3>1 DEF Asking, PollState
    <3>3. /\ spawned \in Nat /\ MaxRuns \in Nat
          /\ spawned + (1 + Len(poll.claimed)) <= MaxRuns
      BY <3>1, ConstantsOK DEF CanSpawn, TypeOK
    <3>4. spawned + Len(q) <= MaxRuns
      BY <3>2, <3>3
    <3>5. /\ run' \in [Runs -> RunState] /\ spawned' \in 0..MaxRuns
          /\ spawned' = spawned + Len(q) /\ registry' \in [Tasks -> {0} \cup Runs]
      BY <3>1, <3>2, <3>4, SpawnType
    <3>6. Room'
      BY <3>1, <3>2, <3>3, <3>5 DEF Room
    <3> DEFINE x == [client[c] EXCEPT !.pc = "awaiting", !.run = spawned + 1]
    <3>7. spawned + 1 \in Runs
      BY <3>2, <3>3 DEF Runs
    <3>8. x \in Request /\ x.task \in Tasks
      BY <1>0, <3>1, <3>7 DEF Request, Asking
    <3>9. client' \in [Clients -> Request] /\ Asking'
      BY <1>1, <3>1, <3>8
    <3>10. QED BY <3>1, <3>5, <3>6, <3>9 DEF TypeOK, database
  <2>3. QED BY <2>1, <2>2
<1>7. CASE CancelByExecution(c)
  <2>1. run' \in [Runs -> RunState]
    <3> DEFINE r == registry[client[c].task]
    <3>1. client[c].task \in Tasks
      BY <1>7 DEF CancelByExecution, Asking
    <3>2. r \in {0} \cup Runs
      BY <3>1 DEF TypeOK
    <3>3. run' = run \/ (r # 0 /\ CancelRun(r))
      BY <1>7 DEF CancelByExecution
    <3>4. QED BY <3>2, <3>3, CancelRunType DEF TypeOK
  <2>2. QED BY <1>2, <1>7, <2>1 DEF CancelByExecution, TypeOK, Room, database
<1>8. CASE DeleteTaskCommit(c)
  <2>1. row' \in [Rows -> Status]
    BY <1>8 DEF DeleteTaskCommit, TypeOK, Status
  <2>2. tasks' \in SUBSET Tasks /\ due' \in SUBSET Tasks
    BY <1>8 DEF DeleteTaskCommit, TypeOK
  <2>3. QED BY <1>2, <1>8, <2>1, <2>2 DEF DeleteTaskCommit, TypeOK, Room
<1>9. CASE Answered(c) \/ DeleteTaskFailed(c)
  BY <1>2, <1>9 DEF Answered, DeleteTaskFailed, TypeOK, Room, database
<1>10. QED BY <1>3, <1>4, <1>5, <1>6, <1>7, <1>8, <1>9 DEF ClientStep

LEMMA TableType ==
  ASSUME TypeOK, Room, \/ \E t \in Tasks : CancelTask(t)
                       \/ \E e \in Rows : DeleteExecution(e)
  PROVE  TypeOK' /\ Room'
<1>1. ASSUME NEW t \in Tasks, CancelTask(t)
      PROVE  TypeOK' /\ Room'
  <2>1. registry[t] \in Runs /\ CancelRun(registry[t])
    BY <1>1 DEF CancelTask, Registered, TypeOK
  <2>2. run' \in [Runs -> RunState]
    BY <2>1, CancelRunType
  <2>3. QED BY <1>1, <2>2 DEF CancelTask, TypeOK, Room, database
<1>2. ASSUME NEW e \in Rows, DeleteExecution(e)
      PROVE  TypeOK' /\ Room'
  <2>1. row' \in [Rows -> Status]
    BY <1>2 DEF DeleteExecution, TypeOK, Status
  <2>2. QED BY <1>2, <2>1 DEF DeleteExecution, TypeOK, Room
<1>3. QED BY <1>1, <1>2

-----------------------------------------------------------------------------
(* Inductiveness of RunInv.  A step that leaves a run, its rows and its      *)
(* events alone keeps what RunInv says of it.                                *)
Keeps(r) ==
  /\ run'[r].pc = run[r].pc /\ run'[r].task = run[r].task /\ run'[r].exit = run[r].exit
  /\ run'[r].attempt = run[r].attempt /\ run'[r].verdict = run[r].verdict
  /\ \A j \in Attempts : RowOf(r, j)' = RowOf(r, j) /\ ToldOf(r, j)' = ToldOf(r, j)
  /\ tasks' = tasks
  /\ up' = up \/ (up # "down" /\ up' # "down")
  /\ r > spawned' <=> r > spawned

LEMMA Frame ==
  ASSUME TypeOK, NEW r \in Runs, RunInv(r), Keeps(r)
  PROVE  RunInv(r)'
<1>0. run[r].attempt \in Attempts /\ 0 \in Attempts
  BY ZeroAttempt DEF TypeOK, RunState
<1>1. \A P : At(r, P)' <=> At(r, P)
  BY DEF Keeps, At
<1>2. \A j \in Attempts : Settled(<<r, j>>)' <=> Settled(<<r, j>>)
  BY DEF Keeps, Settled, RowOf, ToldOf
<1>3. Birth(r)'
  BY <1>1 DEF RunInv, Birth, Keeps
<1>4. Untouched(r)' /\ Past(r)'
  BY <1>0, <1>1, <1>2 DEF RunInv, Untouched, Past, Keeps
<1>5. Present(r)'
  BY <1>0, <1>1, <1>2 DEF RunInv, Present, Keeps
<1>6. Afterwards(r)' /\ Heard(r)' /\ Erased(r)'
  BY <1>2 DEF RunInv, Afterwards, Heard, Erased, Keeps
<1>7. QED BY <1>3, <1>4, <1>5, <1>6 DEF RunInv

(* What a step of run r does to its own record.                              *)
Becomes(r, p, k, v, how) ==
  /\ run'[r].pc = p /\ run'[r].attempt = k /\ run'[r].verdict = v /\ run'[r].exit = how
  /\ run'[r].task = run[r].task
Moves(r, p)  == Becomes(r, p, run[r].attempt, run[r].verdict, run[r].exit)
Quits(r, how) == Becomes(r, "done", 0, "none", how)
SameRows(r)  == \A j \in Attempts : RowOf(r, j)' = RowOf(r, j)
SameTold(r)  == \A j \in Attempts : ToldOf(r, j)' = ToldOf(r, j)
SetRow(r, k, s) == \A j \in Attempts : RowOf(r, j)' = IF j = k THEN s ELSE RowOf(r, j)
Quiet == UNCHANGED <<up, tasks, spawned>>

LEMMA MovesFields ==
  ASSUME TypeOK, NEW r \in Runs
  PROVE  /\ \A p : Goto(r, p) => Moves(r, p)
         /\ \A how : Leave(r, how) => Quits(r, how)
<1>1. run \in [Runs -> RunState] /\ run[r] \in RunState
  BY DEF TypeOK
<1>2. ASSUME NEW p, Goto(r, p)
      PROVE  Moves(r, p)
  BY <1>1, <1>2 DEF RunState, Goto, Moves, Becomes
<1>3. ASSUME NEW how, Leave(r, how)
      PROVE  Quits(r, how)
  <2>1. run'[r] = EndedAs(r, "done", how)
    BY <1>1, <1>3 DEF Leave
  <2>2. QED BY <1>1, <2>1 DEF RunState, EndedAs, Quits, Becomes
<1>4. QED BY <1>2, <1>3

LEMMA RowFields ==
  ASSUME TypeOK, NEW r \in Runs
  PROVE  /\ row' = row => SameRows(r)
         /\ told' = told => SameTold(r)
         /\ \A k \in Attempts : \A s : row' = [row EXCEPT ![<<r, k>>] = s] => SetRow(r, k, s)
<1>1. /\ row' = row => SameRows(r)
      /\ told' = told => SameTold(r)
  BY DEF SameRows, SameTold, RowOf, ToldOf
<1>2. ASSUME NEW k \in Attempts, NEW s, row' = [row EXCEPT ![<<r, k>>] = s],
             NEW j \in Attempts
      PROVE  row'[<<r, j>>] = IF j = k THEN s ELSE row[<<r, j>>]
  <2>1. <<r, j>> \in DOMAIN row /\ (<<r, j>> = <<r, k>> <=> j = k)
    BY RowsType DEF TypeOK
  <2>2. QED BY <1>2, <2>1
<1>3. QED BY <1>1, <1>2 DEF SetRow, RowOf

(* One lemma per way of moving on; the names are those of the pc reached.    *)
LEMMA MovesUntouched ==
  ASSUME TypeOK, NEW r \in Runs, RunInv(r), Quiet, SameRows(r), SameTold(r),
         \/ run[r].pc = "waiting" /\ Moves(r, "creating")
         \/ run[r].pc = "created" /\ Moves(r, "loading")
         \/ run[r].pc = "sleeping" /\ Moves(r, "loading")
         \/ /\ run[r].pc = "loading" /\ Moves(r, "running")
            /\ run[r].task \in tasks /\ RowOf(r, run[r].attempt) # "deleted"
  PROVE  RunInv(r)'
<1>0. run[r].attempt \in Attempts /\ 0 \in Attempts
  BY ZeroAttempt DEF TypeOK, RunState
<1>1. \A j \in Attempts : Settled(<<r, j>>)' <=> Settled(<<r, j>>)
  BY DEF Settled, SameRows, SameTold, RowOf, ToldOf
<1> USE DEF Quiet, SameRows, SameTold, Moves, Becomes
<1>2. Birth(r)'
  BY DEF RunInv, Birth, At, Live, InCreate, InTry
<1>a. \A j \in Attempts : ~(j < 0)
  BY DEF Attempts
<1>b. run[r].pc \in {"waiting", "created"} => run[r].attempt = 0
  BY DEF RunInv, Untouched, At
<1>c. Untouched(r)'
  BY DEF RunInv, Untouched, At, Live, InCreate, InTry
<1>3. Past(r)'
  <2>1. At(r, Live) /\ ~At(r, InHandler) /\ ~At(r, InHandler)'
    BY DEF At, Live, InCreate, InTry, InHandler
  <2>2. ASSUME NEW j \in Attempts, j < run[r].attempt
        PROVE  RowOf(r, j) \in Over /\ Settled(<<r, j>>)
    BY <1>a, <1>b, <2>1, <2>2 DEF RunInv, Past, At, InTry
  <2>3. QED BY <1>1, <2>1, <2>2 DEF Past
<1>4. Present(r)'
  <2>1. CASE run'[r].pc \in {"creating"}
    BY <2>1 DEF Present, At
  <2>2. CASE run'[r].pc = "loading"
    <3>1. RowOf(r, run[r].attempt) \in {"pending", "deleted"}
      BY <2>2 DEF RunInv, Present, At
    <3>2. RowOf(r, run[r].attempt)' \in {"pending", "deleted"}
      BY <1>0, <3>1 DEF RowOf
    <3>3. QED BY <2>2, <3>2 DEF Present, At, RowOf
  <2>3. CASE run'[r].pc = "running"
    <3>1. RowOf(r, run[r].attempt) = "pending"
      BY <2>3 DEF RunInv, Present, At
    <3>2. row'[<<r, run[r].attempt>>] = "pending"
      BY <1>0, <3>1 DEF RowOf
    <3>3. QED BY <2>3, <3>2 DEF Present, At, RowOf
  <2>4. QED BY <2>1, <2>2, <2>3
<1>5. Afterwards(r)' /\ Heard(r)'
  BY <1>1 DEF RunInv, Afterwards, Heard, Birth
<1>6. Erased(r)'
  BY <1>1 DEF RunInv, Erased
<1>7. QED BY <1>2, <1>c, <1>3, <1>4, <1>5, <1>6 DEF RunInv

(* A run that ends: by an exception, or by returning.                        *)
LEMMA QuitsInv ==
  ASSUME TypeOK, NEW r \in Runs, RunInv(r), Quiet, SameRows(r), SameTold(r), IsLive(r),
         NEW how \in {"returned", "error", "cancelled"}, Quits(r, how),
         how = "returned" => \A j \in Attempts : RowOf(r, j) = "absent" \/ Settled(<<r, j>>)
  PROVE  RunInv(r)'
<1>1. \A j \in Attempts : Settled(<<r, j>>)' <=> Settled(<<r, j>>)
  BY DEF Settled, SameRows, SameTold, RowOf, ToldOf
<1> USE DEF Quiet, SameRows, SameTold, Quits, Becomes
<1>2. Birth(r)'
  BY DEF RunInv, Birth, At, Live, InCreate, InTry, InHandler, IsLive
<1>3. Untouched(r)' /\ Past(r)' /\ Present(r)'
  BY DEF Untouched, Past, Present, At, Live, InCreate, InTry, InHandler
<1>4. Afterwards(r)' /\ Heard(r)' /\ Erased(r)'
  BY <1>1 DEF RunInv, Afterwards, Heard, Erased
<1>5. QED BY <1>2, <1>3, <1>4 DEF RunInv

LEMMA AttemptOrder ==
  ASSUME NEW k \in Attempts, NEW j \in Attempts
  PROVE  /\ j <= k <=> (j < k \/ j = k)
         /\ j < k + 1 <=> j <= k
BY ConstantsOK DEF Attempts

(* A row is committed by the run: the first insert, the verdict, the retry,  *)
(* the cancel handler.                                                       *)
LEMMA CreatesInv ==
  ASSUME TypeOK, NEW r \in Runs, RunInv(r), Quiet, SameTold(r),
         run[r].task \in tasks,
         \/ /\ run[r].pc = "creating" /\ Moves(r, "created") /\ SetRow(r, 0, "pending")
         \/ /\ run[r].pc = "retrying" /\ SetRow(r, run[r].attempt + 1, "pending")
            /\ Becomes(r, "sleeping", run[r].attempt + 1, run[r].verdict, run[r].exit)
  PROVE  RunInv(r)'
<1>0. /\ run[r].attempt \in Attempts /\ 0 \in Attempts
      /\ \A j \in Attempts : j \in Nat /\ (j < MaxRetries => j + 1 \in Attempts)
  BY ZeroAttempt, ConstantsOK DEF TypeOK, RunState, Attempts
<1>t. \A j \in Attempts : ToldOf(r, j) \in {"none"} \cup Terminal
  BY RowsType DEF TypeOK, ToldOf
<1> USE DEF Quiet, SameTold, SetRow, Moves, Becomes
<1>1. CASE run[r].pc = "creating"
  <2>0. /\ run[r].attempt = 0 /\ \A j \in Attempts : RowOf(r, j) = "absent"
        /\ run'[r].pc = "created" /\ run'[r].attempt = 0
        /\ \A j \in Attempts : RowOf(r, j)' = IF j = 0 THEN "pending" ELSE "absent"
    BY <1>1 DEF RunInv, Untouched, At
  <2>a. \A j \in Attempts : ToldOf(r, j)' = "none"
    <3>2. \A j \in Attempts : ToldOf(r, j) # "none" => ToldOf(r, j) = "absent"
      BY <2>0 DEF RunInv, Heard
    <3>3. QED BY <1>t, <3>2 DEF Terminal
  <2>1. Birth(r)'
    BY <1>1 DEF RunInv, Birth, At, Live, InCreate, InTry, InHandler
  <2>2. Untouched(r)' /\ Past(r)' /\ Present(r)'
    BY <1>0, <2>0, <2>a DEF Untouched, Past, Present, At, InTry, InHandler
  <2>3. Afterwards(r)' /\ Heard(r)' /\ Erased(r)'
    BY <1>1, <2>0, <2>a, <2>1 DEF RunInv, Afterwards, Heard, Erased, Birth, At, Live, InCreate
  <2>4. QED BY <2>1, <2>2, <2>3 DEF RunInv
<1>2. CASE run[r].pc = "retrying"
  <2> DEFINE k == run[r].attempt
  <2>0. /\ run'[r].pc = "sleeping" /\ run'[r].attempt = k + 1
        /\ k \in Attempts /\ k + 1 \in Attempts
        /\ \A j \in Attempts : RowOf(r, j)' = IF j = k + 1 THEN "pending" ELSE RowOf(r, j)
        /\ \A j \in Attempts : ToldOf(r, j)' = ToldOf(r, j)
    <3>1. k < MaxRetries
      BY <1>2 DEF RunInv, Present, At
    <3>2. QED BY <1>0, <1>2, <3>1
  <2>a. \A j \in Attempts : j > k => RowOf(r, j) = "absent"
    BY <1>2 DEF RunInv, Untouched, At, Live, InTry
  <2>b. \A j \in Attempts : j <= k => Settled(<<r, j>>)
    <3>1. \A j \in Attempts : j < k => Settled(<<r, j>>)
      BY <1>2 DEF RunInv, Past, At, InTry
    <3>2. Settled(<<r, k>>)
      BY <1>2 DEF RunInv, Present, At
    <3>3. \A j \in Attempts : j <= k => j < k \/ j = k
      BY <1>0, AttemptOrder
    <3>4. QED BY <3>1, <3>2, <3>3
  <2>1. Birth(r)'
    BY <1>2 DEF RunInv, Birth, At, Live, InCreate, InTry, InHandler
  <2>2. Untouched(r)'
    <3>1. \A j \in Attempts : j > k + 1 => RowOf(r, j)' = "absent"
      BY <1>0, <2>0, <2>a
    <3>2. QED BY <2>0, <3>1 DEF Untouched, At
  <2>3. \A j \in Attempts : j <= k => Settled(<<r, j>>)' /\ RowOf(r, j)' \in Over
    <3>1. \A j \in Attempts : j <= k => j # k + 1
      BY <1>0
    <3>2. QED BY <2>0, <2>b, <3>1 DEF Settled, Over, RowOf, ToldOf
  <2>4. Past(r)'
    <3>1. \A j \in Attempts : j < k + 1 => j <= k
      BY <1>0, AttemptOrder
    <3>2. QED BY <2>0, <2>3, <3>1 DEF Past, At, InHandler
  <2>5. Present(r)'
    BY <2>0 DEF Present, At
  <2>6. Afterwards(r)' /\ Erased(r)'
    BY <1>2, <2>0, <2>1 DEF RunInv, Afterwards, Erased, Birth, At, Live, InTry
  <2>7. Heard(r)'
    <3>1. RowOf(r, k + 1) = "absent"
      BY <1>0, <2>0, <2>a
    <3>2. ToldOf(r, k + 1) = "none"
      BY <1>t, <2>0, <3>1 DEF RunInv, Heard, Terminal
    <3>3. QED BY <2>0, <3>2 DEF RunInv, Heard
  <2>8. QED BY <2>1, <2>2, <2>4, <2>5, <2>6, <2>7 DEF RunInv
<1>3. QED BY <1>1, <1>2

LEMMA SettlesInv ==
  ASSUME TypeOK, NEW r \in Runs, RunInv(r), Quiet, SameTold(r), NEW s \in Terminal,
         NEW k \in Attempts, SetRow(r, k, s), RowOf(r, k) = "pending",
         \/ /\ run[r].pc = "loading" /\ k = run[r].attempt
            /\ Becomes(r, "refused", k, s, run[r].exit)
         \/ /\ run[r].pc = "running" /\ k = run[r].attempt /\ s \in Retried \cup {"completed"}
            /\ Becomes(r, "committed", k, s, run[r].exit)
         \/ /\ run[r].pc = "aborting" /\ k = 0 /\ s = "cancelled"
            /\ Becomes(r, "aborted", run[r].attempt, s, run[r].exit)
  PROVE  RunInv(r)'
<1>0. /\ run[r].attempt \in Attempts
      /\ \A j \in Attempts : ToldOf(r, j) \in {"none"} \cup Terminal
  BY RowsType DEF TypeOK, RunState, ToldOf
<1> USE DEF Quiet, SameTold, SetRow, Becomes
<1>1. /\ s \in Over /\ s # "pending" /\ s # "absent" /\ s # "deleted"
      /\ "pending" \notin Over /\ "absent" \notin Over
  BY DEF Over, Terminal
<1>2. ToldOf(r, k) = "none"
  BY <1>0 DEF RunInv, Heard, Terminal
<1>3. run[r].task \in tasks
  <2>1. IsLive(r) => run[r].task \in Tasks
    BY DEF RunInv, Birth, At, IsLive, Live, InCreate, InTry, InHandler
  <2>2. QED BY <2>1 DEF RunInv, Erased, IsLive, Live, InTry, InHandler
<1>4. Birth(r)'
  BY DEF RunInv, Birth, At, Live, InCreate, InTry, InHandler
<1>5. Untouched(r)'
  <2>1. k <= run[r].attempt
    BY <1>0, ConstantsOK DEF Attempts
  <2>2. \A j \in Attempts : j > run[r].attempt => RowOf(r, j) = "absent"
    BY DEF RunInv, Untouched, At, Live, InTry, InHandler
  <2>3. QED BY <1>1, <2>2 DEF Untouched, At, Live, InTry, InHandler
<1>6. Past(r)'
  <2>1. \A j \in Attempts : j < run[r].attempt => RowOf(r, j)' \in Over
    BY <1>1 DEF RunInv, Past, At, Live, InTry, InHandler
  <2>2. ASSUME At(r, InTry)', NEW j \in Attempts, j < run[r].attempt
        PROVE  Settled(<<r, j>>)'
    <3>1. Settled(<<r, j>>)
      BY <2>2 DEF RunInv, Past, At, InTry, InHandler
    <3>2. RowOf(r, j) # "pending"
      BY <3>1 DEF Settled, RowOf, Terminal
    <3>3. QED BY <3>1, <3>2 DEF Settled, RowOf, ToldOf
  <2>3. At(r, InHandler)' => RowOf(r, 0)' # "absent"
    BY <1>1 DEF At, InHandler
  <2>4. QED BY <2>1, <2>2, <2>3 DEF Past
<1>7. Present(r)'
  BY <1>0, <1>2 DEF Present, At
<1>8. Afterwards(r)' /\ Erased(r)'
  <2>1. run[r].exit = "none"
    BY DEF RunInv, Birth, At, Live, InTry, InHandler
  <2>2. QED BY <1>3, <2>1 DEF Afterwards, Erased
<1>9. Heard(r)'
  BY <1>2 DEF RunInv, Heard
<1>10. QED BY <1>4, <1>5, <1>6, <1>7, <1>8, <1>9 DEF RunInv

(* The terminal event of a row goes out.                                     *)
LEMMA EmitsInv ==
  ASSUME TypeOK, NEW r \in Runs, RunInv(r), Quiet, SameRows(r), NEW k \in Attempts,
         \A j \in Attempts : ToldOf(r, j)' = IF j = k THEN run[r].verdict ELSE ToldOf(r, j),
         \/ run[r].pc = "committed" /\ k = run[r].attempt /\ Moves(r, "notifying")
         \/ run[r].pc = "refused" /\ k = run[r].attempt /\ Moves(r, "refuseNotifying")
         \/ run[r].pc = "aborted" /\ k = 0 /\ Moves(r, "abortNotifying")
  PROVE  RunInv(r)'
<1>0. run[r].attempt \in Attempts
  BY DEF TypeOK, RunState
<1> USE DEF Quiet, SameRows, Moves, Becomes
<1>1. /\ run[r].verdict \in Terminal /\ RowOf(r, k) \in {run[r].verdict, "deleted"}
      /\ ToldOf(r, k) = "none"
  BY DEF RunInv, Present, At, Terminal
<1>2. \A j \in Attempts : j # k => (Settled(<<r, j>>)' <=> Settled(<<r, j>>))
  BY DEF Settled, RowOf, ToldOf
<1>3. Birth(r)'
  BY DEF RunInv, Birth, At, Live, InCreate, InTry, InHandler
<1>4. Untouched(r)'
  BY DEF RunInv, Untouched, At, Live, InTry, InHandler
<1>5. Past(r)'
  <2>1. \A j \in Attempts : j < run[r].attempt => RowOf(r, j)' \in Over
    BY DEF RunInv, Past, At, Live, InTry, InHandler
  <2>2. ASSUME At(r, InTry)', NEW j \in Attempts, j < run[r].attempt
        PROVE  Settled(<<r, j>>)'
    <3>1. Settled(<<r, j>>) /\ k = run[r].attempt
      BY <2>2 DEF RunInv, Past, At, InTry, InHandler
    <3>2. j # k
      BY <1>0, <2>2, <3>1, ConstantsOK DEF Attempts
    <3>3. QED BY <1>2, <3>1, <3>2
  <2>3. At(r, InHandler)' => RowOf(r, 0)' # "absent"
    BY ZeroAttempt DEF RunInv, Past, At, InTry, InHandler
  <2>4. QED BY <2>1, <2>2, <2>3 DEF Past
<1>6. Present(r)'
  BY <1>0, <1>1 DEF RunInv, Present, At
<1>7. Afterwards(r)' /\ Erased(r)'
  <2>1. run[r].exit = "none"
    BY DEF RunInv, Birth, At, Live, InTry, InHandler
  <2>2. QED BY <2>1 DEF RunInv, Afterwards, Erased
<1>8. Heard(r)'
  BY <1>1 DEF RunInv, Heard
<1>9. QED BY <1>3, <1>4, <1>5, <1>6, <1>7, <1>8 DEF RunInv

(* The run goes for a retry, enters its cancel handler, or is forgotten.     *)
LEMMA TurnsInv ==
  ASSUME TypeOK, NEW r \in Runs, RunInv(r), Quiet, SameRows(r), SameTold(r),
         \/ /\ run[r].pc = "notifying" /\ run[r].verdict # "completed"
            /\ run[r].attempt < MaxRetries
            /\ Becomes(r, "retrying", run[r].attempt, "none", run[r].exit)
         \/ /\ run[r].pc \in InTry
            /\ Becomes(r, "aborting", run[r].attempt, "none", run[r].exit)
         \/ run[r].pc = "done" /\ Moves(r, "gone")
  PROVE  RunInv(r)'
<1>0. run[r].attempt \in Attempts
  BY DEF TypeOK, RunState
<1>1. \A j \in Attempts : Settled(<<r, j>>)' <=> Settled(<<r, j>>)
  BY DEF Settled, SameRows, SameTold, RowOf, ToldOf
<1> USE DEF Quiet, SameRows, SameTold, Moves, Becomes
<1>2. Birth(r)'
  BY DEF RunInv, Birth, At, Live, InCreate, InTry, InHandler
<1>3. Untouched(r)'
  BY DEF RunInv, Untouched, At, Live, InCreate, InTry, InHandler
<1>4. run[r].pc \in InTry => RowOf(r, 0) # "absent"
  <2>1. run[r].attempt # 0 => RowOf(r, 0) \in Over \/ run[r].pc \notin InTry
    BY <1>0, ZeroAttempt, ConstantsOK DEF RunInv, Past, At, Live, Attempts
  <2>2. run[r].attempt = 0 /\ run[r].pc \in InTry => RowOf(r, 0) # "absent"
    BY DEF RunInv, Present, At, InTry, Terminal, Retried
  <2>3. QED BY <2>1, <2>2 DEF Over, Terminal
<1>5. Past(r)'
  <2>1. CASE run[r].pc = "done"
    BY <2>1 DEF Past, At, Live, InCreate, InTry, InHandler
  <2>2. CASE run[r].pc \in InTry
    <3>1. \A j \in Attempts : j < run[r].attempt => RowOf(r, j)' \in Over /\ Settled(<<r, j>>)'
      BY <1>1, <2>2 DEF RunInv, Past, At, Live
    <3>2. RowOf(r, 0)' # "absent"
      BY <1>4, <2>2, ZeroAttempt
    <3>3. run'[r].attempt = run[r].attempt
      BY <2>2
    <3>4. QED BY <3>1, <3>2, <3>3 DEF Past
  <2>3. QED BY <2>1, <2>2 DEF InTry
<1>6. Present(r)'
  <2>1. CASE run'[r].pc = "retrying"
    <3>1. Settled(<<r, run[r].attempt>>) /\ RowOf(r, run[r].attempt) \in Retried \cup {"deleted"}
      BY <2>1 DEF RunInv, Present, At, Settled, RowOf, ToldOf, InTry, Retried, Terminal
    <3>2. run[r].attempt < MaxRetries
      BY <2>1
    <3>3. QED BY <1>0, <1>1, <2>1, <3>1, <3>2 DEF Present, At
  <2>2. CASE run'[r].pc \in {"aborting", "gone"}
    BY <2>2 DEF Present, At
  <2>3. QED BY <2>1, <2>2
<1>7. Afterwards(r)' /\ Heard(r)' /\ Erased(r)'
  BY <1>1 DEF RunInv, Afterwards, Heard, Erased
<1>8. QED BY <1>2, <1>3, <1>5, <1>6, <1>7 DEF RunInv

(* A step of one run keeps what RunInv says of that run ...                  *)
LEMMA RunStepOwn ==
  ASSUME TypeOK, NEW r \in Runs, RunInv(r), RunStep(r) \/ DatabaseError(r)
  PROVE  RunInv(r)'
<1>0. /\ run[r] \in RunState /\ run[r].attempt \in Attempts /\ 0 \in Attempts
      /\ run \in [Runs -> RunState]
  BY ZeroAttempt DEF TypeOK, RunState
<1>1. Quiet
  BY DEF RunStep, DatabaseError, Elsewhere, Acquire, CreateExecution, PublishId, LoadPair,
         CommitAttempt, Emit, EmitFor, Decide, RefuseDone, CreateRetry, RetryPause,
         Interrupted, CancelExecution, AbortDone, Finished, Quiet
<1>2. CASE Acquire(r) \/ RetryPause(r)
  BY <1>1, <1>2, MovesFields, RowFields, MovesUntouched
     DEF Acquire, RetryPause, Elsewhere, Proceeds
<1>3. CASE CreateExecution(r)
  <2>1. CASE run[r].task \in tasks
    BY <1>0, <1>1, <1>3, <2>1, MovesFields, RowFields, CreatesInv
       DEF CreateExecution, Proceeds, First
  <2>2. CASE run[r].task \notin tasks
    BY <1>1, <1>3, <2>2, MovesFields, RowFields, QuitsInv
       DEF CreateExecution, Proceeds, IsLive, Live, InCreate
  <2>3. QED BY <2>1, <2>2
<1>4. CASE PublishId(r)
  <2>1. Moves(r, "loading")
    BY <1>0, <1>4 DEF PublishId, Moves, Becomes, RunState
  <2>2. QED BY <1>1, <1>4, <2>1, RowFields, MovesUntouched DEF PublishId, Proceeds
<1>5. CASE LoadPair(r)
  <2>1. CASE run[r].task \notin tasks \/ row[Current(r)] = "deleted"
    <3>1. \A j \in Attempts : RowOf(r, j) = "absent" \/ Settled(<<r, j>>)
      <4>1. RowOf(r, run[r].attempt) = "deleted"
        <5>1. RowOf(r, run[r].attempt) \in {"pending", "deleted"}
          BY <1>5 DEF LoadPair, Proceeds, RunInv, Present, At
        <5>2. run[r].task \in Tasks
          BY <1>5 DEF LoadPair, Proceeds, RunInv, Birth, At
        <5>3. QED BY <1>0, <2>1, <5>1, <5>2 DEF RunInv, Erased, Current, RowOf
      <4>2. \A j \in Attempts : j < run[r].attempt => Settled(<<r, j>>)
        BY <1>5 DEF LoadPair, Proceeds, RunInv, Past, At, InTry
      <4>3. \A j \in Attempts : j > run[r].attempt => RowOf(r, j) = "absent"
        BY <1>5 DEF LoadPair, Proceeds, RunInv, Untouched, At, Live, InTry
      <4>4. \A j \in Attempts : j < run[r].attempt \/ j = run[r].attempt \/ j > run[r].attempt
        BY <1>0, ConstantsOK DEF Attempts
      <4>5. QED BY <4>1, <4>2, <4>3, <4>4 DEF Settled, RowOf
    <3>2. QED BY <1>1, <1>5, <2>1, <3>1, MovesFields, RowFields, QuitsInv
               DEF LoadPair, Proceeds, IsLive, Live, InTry
  <2>2. CASE ~(run[r].task \notin tasks \/ row[Current(r)] = "deleted")
    <3>1. CASE Goto(r, "running") /\ UNCHANGED row
      BY <1>1, <1>5, <2>2, <3>1, MovesFields, RowFields, MovesUntouched
         DEF LoadPair, Proceeds, Current, RowOf
    <3>2. CASE /\ row' = [row EXCEPT ![Current(r)] = "failed"]
               /\ run' = [run EXCEPT ![r].verdict = "failed", ![r].pc = "refused"]
      <4>1. Becomes(r, "refused", run[r].attempt, "failed", run[r].exit)
        BY <1>0, <3>2 DEF Becomes, RunState
      <4>2. SetRow(r, run[r].attempt, "failed")
        BY <1>0, <3>2, RowFields DEF Current
      <4>3. RowOf(r, run[r].attempt) = "pending"
        BY <1>5, <2>2 DEF LoadPair, Proceeds, RunInv, Present, At, Current, RowOf
      <4>4. SameTold(r) /\ run[r].pc = "loading"
        BY <1>5, RowFields DEF LoadPair, Proceeds
      <4>5. QED BY <1>0, <1>1, <4>1, <4>2, <4>3, <4>4, SettlesInv DEF Terminal
    <3>3. QED BY <1>5, <2>2, <3>1, <3>2 DEF LoadPair
  <2>3. QED BY <2>1, <2>2
<1>6. CASE CommitAttempt(r)
  <2>1. PICK s \in {"completed", "failed", "timeout"} :
          /\ row' = [row EXCEPT ![Current(r)] = s]
          /\ run' = [run EXCEPT ![r].verdict = s, ![r].pc = "committed"]
    BY <1>6 DEF CommitAttempt
  <2>2. Becomes(r, "committed", run[r].attempt, s, run[r].exit)
    BY <1>0, <2>1 DEF Becomes, RunState
  <2>3. SetRow(r, run[r].attempt, s)
    BY <1>0, <2>1, RowFields DEF Current
  <2>4. RowOf(r, run[r].attempt) = "pending" /\ run[r].pc = "running"
    BY <1>6 DEF CommitAttempt, Proceeds, RunInv, Present, At
  <2>5. SameTold(r)
    BY <1>6, RowFields DEF CommitAttempt
  <2>6. QED BY <1>0, <1>1, <2>2, <2>3, <2>4, <2>5, SettlesInv DEF Terminal, Retried
<1>7. CASE Emit(r)
  <2>1. ASSUME NEW p, NEW to, NEW k \in Attempts, EmitFor(r, p, to, <<r, k>>)
        PROVE  /\ Moves(r, to) /\ SameRows(r) /\ run[r].pc = p
               /\ \A j \in Attempts :
                    ToldOf(r, j)' = IF j = k THEN run[r].verdict ELSE ToldOf(r, j)
    <3>1. \A j \in Attempts : <<r, j>> \in DOMAIN told /\ (<<r, j>> = <<r, k>> <=> j = k)
      BY RowsType DEF TypeOK
    <3>2. told' = [told EXCEPT ![<<r, k>>] = run[r].verdict]
      BY <2>1 DEF EmitFor
    <3>3. QED BY <2>1, <3>1, <3>2, MovesFields, RowFields DEF EmitFor, Proceeds, ToldOf
  <2>2. QED BY <1>0, <1>1, <1>7, <2>1, EmitsInv DEF Emit, Current, First
<1>8. CASE Decide(r)
  <2>0. run[r].pc = "notifying" /\ SameRows(r) /\ SameTold(r)
    BY <1>8, RowFields DEF Decide, Proceeds
  <2>1. CASE run[r].verdict = "completed" \/ RetriesExhausted(r)
    <3>1. \A j \in Attempts : RowOf(r, j) = "absent" \/ Settled(<<r, j>>)
      <4>1. Settled(<<r, run[r].attempt>>)
        BY <2>0 DEF RunInv, Present, At, Settled, RowOf, ToldOf, Terminal
      <4>2. \A j \in Attempts : j < run[r].attempt => Settled(<<r, j>>)
        BY <2>0 DEF RunInv, Past, At, InTry
      <4>3. \A j \in Attempts : j > run[r].attempt => RowOf(r, j) = "absent"
        BY <2>0 DEF RunInv, Untouched, At, Live, InTry
      <4>4. \A j \in Attempts : j < run[r].attempt \/ j = run[r].attempt \/ j > run[r].attempt
        BY <1>0, ConstantsOK DEF Attempts
      <4>5. QED BY <4>1, <4>2, <4>3, <4>4
    <3>2. QED BY <1>1, <1>8, <2>0, <2>1, <3>1, MovesFields, QuitsInv
               DEF Decide, IsLive, Live, InTry
  <2>2. CASE ~(run[r].verdict = "completed" \/ RetriesExhausted(r))
    <3>1. Becomes(r, "retrying", run[r].attempt, "none", run[r].exit)
      BY <1>0, <1>8, <2>2 DEF Decide, Becomes, RunState
    <3>2. run[r].attempt < MaxRetries
      BY <1>0, <2>2, ConstantsOK DEF RetriesExhausted, Attempts
    <3>3. QED BY <1>1, <2>0, <2>2, <3>1, <3>2, TurnsInv
  <2>3. QED BY <2>1, <2>2
<1>9. CASE RefuseDone(r)
  <2>0. run[r].pc = "refuseNotifying" /\ SameRows(r) /\ SameTold(r)
    BY <1>9, RowFields DEF RefuseDone, Proceeds
  <2>1. Settled(<<r, run[r].attempt>>)
    BY <2>0 DEF RunInv, Present, At, Settled, RowOf, ToldOf, Terminal
  <2>2. \A j \in Attempts : j < run[r].attempt => Settled(<<r, j>>)
    BY <2>0 DEF RunInv, Past, At, InTry
  <2>3. \A j \in Attempts : j > run[r].attempt => RowOf(r, j) = "absent"
    BY <2>0 DEF RunInv, Untouched, At, Live, InTry
  <2>4. \A j \in Attempts : j < run[r].attempt \/ j = run[r].attempt \/ j > run[r].attempt
    BY <1>0, ConstantsOK DEF Attempts
  <2>5. \A j \in Attempts : RowOf(r, j) = "absent" \/ Settled(<<r, j>>)
    BY <2>1, <2>2, <2>3, <2>4
  <2>6. QED BY <1>1, <1>9, <2>0, <2>5, MovesFields, QuitsInv
             DEF RefuseDone, IsLive, Live, InTry
<1>10. CASE CreateRetry(r)
  <2>0. run[r].pc = "retrying" /\ SameTold(r)
    BY <1>10, RowFields DEF CreateRetry, Proceeds
  <2>1. CASE run[r].task \in tasks
    <3>1. run[r].attempt + 1 \in Attempts
      <4>1. run[r].attempt < MaxRetries
        BY <2>0 DEF RunInv, Present, At
      <4>2. QED BY <1>0, <4>1, ConstantsOK DEF Attempts
    <3>2. Becomes(r, "sleeping", run[r].attempt + 1, run[r].verdict, run[r].exit)
      BY <1>0, <1>10, <2>1 DEF CreateRetry, Becomes, RunState
    <3>3. SetRow(r, run[r].attempt + 1, "pending")
      BY <1>10, <2>1, <3>1, RowFields DEF CreateRetry
    <3>4. QED BY <1>1, <2>0, <2>1, <3>2, <3>3, CreatesInv
  <2>2. CASE run[r].task \notin tasks
    BY <1>1, <1>10, <2>0, <2>2, MovesFields, RowFields, QuitsInv
       DEF CreateRetry, IsLive, Live, InTry
  <2>3. QED BY <2>1, <2>2
<1>11. CASE Interrupted(r)
  <2>0. IsLive(r) /\ SameRows(r) /\ SameTold(r)
    BY <1>11, RowFields DEF Interrupted
  <2>1. CASE run[r].pc \in InTry
    <3>1. Becomes(r, "aborting", run[r].attempt, "none", run[r].exit)
      BY <1>0, <1>11, <2>1 DEF Interrupted, Becomes, RunState
    <3>2. QED BY <1>1, <2>0, <2>1, <3>1, TurnsInv
  <2>2. CASE run[r].pc \notin InTry
    BY <1>1, <1>11, <2>0, <2>2, MovesFields, QuitsInv DEF Interrupted
  <2>3. QED BY <2>1, <2>2
<1>12. CASE CancelExecution(r)
  <2>0. run[r].pc = "aborting" /\ IsLive(r) /\ SameTold(r)
    BY <1>12, RowFields DEF CancelExecution, Proceeds, IsLive, Live, InHandler
  <2>1. CASE AlreadySettled(First(r))
    BY <1>1, <1>12, <2>0, <2>1, MovesFields, RowFields, QuitsInv DEF CancelExecution
  <2>2. CASE ~AlreadySettled(First(r))
    <3>1. Becomes(r, "aborted", run[r].attempt, "cancelled", run[r].exit)
      BY <1>0, <1>12, <2>2 DEF CancelExecution, Becomes, RunState
    <3>2. SetRow(r, 0, "cancelled")
      BY <1>0, <1>12, <2>2, RowFields DEF CancelExecution, First
    <3>3. RowOf(r, 0) = "pending"
      <4>1. RowOf(r, 0) # "absent"
        BY <2>0 DEF RunInv, Past, At, InHandler
      <4>2. RowOf(r, 0) \in Status
        BY <1>0, RowsType DEF TypeOK, RowOf
      <4>3. QED BY <2>2, <4>1, <4>2 DEF AlreadySettled, First, RowOf, Status
    <3>4. QED BY <1>0, <1>1, <2>0, <3>1, <3>2, <3>3, SettlesInv DEF Terminal
  <2>3. QED BY <2>1, <2>2
<1>13. CASE AbortDone(r)
  BY <1>1, <1>13, MovesFields, RowFields, QuitsInv
     DEF AbortDone, Proceeds, IsLive, Live, InHandler
<1>14. CASE Finished(r)
  BY <1>1, <1>14, MovesFields, RowFields, TurnsInv DEF Finished
<1>15. CASE DatabaseError(r)
  BY <1>1, <1>15, MovesFields, RowFields, QuitsInv
     DEF DatabaseError, Proceeds, IsLive, Live, InCreate, InTry, InHandler
<1>16. QED BY <1>2, <1>3, <1>4, <1>5, <1>6, <1>7, <1>8, <1>9, <1>10, <1>11, <1>12, <1>13,
              <1>14, <1>15 DEF RunStep

(* ... and, leaving the others alone, what it says of them.                  *)
LEMMA RunStepOthers ==
  ASSUME TypeOK, NEW r \in Runs, RunStep(r) \/ DatabaseError(r),
         NEW q \in Runs, q # r, RunInv(q)
  PROVE  RunInv(q)'
<1>0. run \in [Runs -> RunState] /\ run[q] \in RunState
  BY DEF TypeOK
<1>1. Quiet
  BY DEF RunStep, DatabaseError, Elsewhere, Acquire, CreateExecution, PublishId, LoadPair,
         CommitAttempt, Emit, EmitFor, Decide, RefuseDone, CreateRetry, RetryPause,
         Interrupted, CancelExecution, AbortDone, Finished, Quiet
<1>2. /\ \A p : Goto(r, p) => run'[q] = run[q]
      /\ \A how : Leave(r, how) => run'[q] = run[q]
  BY <1>0 DEF Goto, Leave
<1>3. /\ run'[q].pc = run[q].pc /\ run'[q].task = run[q].task /\ run'[q].exit = run[q].exit
      /\ run'[q].attempt = run[q].attempt /\ run'[q].verdict = run[q].verdict
  <2>1. CASE PublishId(r)
    BY <1>0, <2>1 DEF PublishId, RunState
  <2>2. CASE ~PublishId(r)
    <3>1. run'[q] = run[q]
      <4>1. CASE CommitAttempt(r)
        BY <1>0, <4>1 DEF CommitAttempt
      <4>2. CASE Emit(r) \/ RetryPause(r) \/ Acquire(r) \/ Finished(r)
        BY <1>2, <4>2 DEF Emit, EmitFor, RetryPause, Acquire, Finished
      <4>3. CASE RefuseDone(r) \/ AbortDone(r) \/ DatabaseError(r)
        BY <1>2, <4>3 DEF RefuseDone, AbortDone, DatabaseError
      <4>4. CASE CreateExecution(r) \/ LoadPair(r)
        BY <1>0, <1>2, <4>4 DEF CreateExecution, LoadPair
      <4>5. CASE Decide(r) \/ CreateRetry(r)
        BY <1>0, <1>2, <4>5 DEF Decide, CreateRetry
      <4>6. CASE Interrupted(r) \/ CancelExecution(r)
        BY <1>0, <1>2, <4>6 DEF Interrupted, CancelExecution
      <4>7. QED BY <2>2, <4>1, <4>2, <4>3, <4>4, <4>5, <4>6 DEF RunStep
    <3>2. QED BY <3>1
  <2>3. QED BY <2>1, <2>2
<1>4. ASSUME NEW j \in Attempts
      PROVE  row'[<<q, j>>] = row[<<q, j>>] /\ told'[<<q, j>>] = told[<<q, j>>]
  <2>1. /\ \A k : <<q, j>> # <<r, k>>
        /\ row \in [Rows -> Status] /\ told \in [Rows -> {"none"} \cup Terminal]
        /\ <<q, j>> \in Rows
    BY RowsType DEF TypeOK
  <2>2. row'[<<q, j>>] = row[<<q, j>>]
    BY <2>1 DEF RunStep, DatabaseError, Acquire, CreateExecution, PublishId, LoadPair,
         CommitAttempt, Emit, EmitFor, Decide, RefuseDone, CreateRetry, RetryPause,
         Interrupted, CancelExecution, AbortDone, Finished, Current, First
  <2>3. told'[<<q, j>>] = told[<<q, j>>]
    BY <2>1 DEF RunStep, DatabaseError, Acquire, CreateExecution, PublishId, LoadPair,
         CommitAttempt, Emit, EmitFor, Decide, RefuseDone, CreateRetry, RetryPause,
         Interrupted, CancelExecution, AbortDone, Finished, Current, First
  <2>4. QED BY <2>2, <2>3
<1>5. Keeps(q)
  BY <1>1, <1>3, <1>4 DEF Keeps, Quiet, RowOf, ToldOf
<1>6. QED BY <1>5, Frame

(* A cancel request changes no run beyond its cancel mark.                   *)
LEMMA MarkedInv ==
  ASSUME TypeOK, NEW r \in Runs, RunInv(r), UNCHANGED <<tasks, row, told, spawned>>,
         up' = up \/ (up # "down" /\ up' # "down"),
         \/ run' = run
         \/ \E x : CancelRun(x)
         \/ Stop
  PROVE  RunInv(r)'
<1>1. run \in [Runs -> RunState] /\ run[r] \in RunState
  BY DEF TypeOK
<1>2. /\ run'[r].pc = run[r].pc /\ run'[r].task = run[r].task /\ run'[r].exit = run[r].exit
      /\ run'[r].attempt = run[r].attempt /\ run'[r].verdict = run[r].verdict
  <2>1. ASSUME NEW x, CancelRun(x)
        PROVE  /\ run'[r].pc = run[r].pc /\ run'[r].task = run[r].task
               /\ run'[r].exit = run[r].exit /\ run'[r].attempt = run[r].attempt
               /\ run'[r].verdict = run[r].verdict
    BY <1>1, <2>1 DEF CancelRun, RunState
  <2>2. CASE Stop
    BY <1>1, <2>2 DEF Stop, RunState
  <2>3. QED BY <2>1, <2>2
<1>3. Keeps(r)
  BY <1>2 DEF Keeps, RowOf, ToldOf
<1>4. QED BY <1>3, Frame

(* The process dies: what was open stays open until the next start.          *)
LEMMA VanishInv ==
  ASSUME TypeOK, NEW r \in Runs, RunInv(r), Vanish
  PROVE  RunInv(r)'
<1>1. run \in [Runs -> RunState] /\ run[r] \in RunState
  BY DEF TypeOK
<1>2. up' = "down" /\ UNCHANGED <<tasks, row, told, spawned>>
  BY DEF Vanish, database
<1>3. \A j \in Attempts : Settled(<<r, j>>)' <=> Settled(<<r, j>>)
  BY <1>2 DEF Settled
<1>4. CASE run[r].pc = "unborn"
  <2>1. run'[r] = Unborn
    BY <1>1, <1>4 DEF Vanish
  <2>2. run'[r].pc = "unborn" /\ run'[r].attempt = 0 /\ run'[r].exit = "none"
        /\ run'[r].task = NoTask
    BY <2>1 DEF Unborn
  <2>3. \A j \in Attempts : RowOf(r, j) = "absent"
    BY <1>4 DEF RunInv, Untouched, At
  <2>4. Birth(r)'
    BY <1>2, <1>4, <2>2 DEF RunInv, Birth, At, Live, InCreate, InTry, InHandler
  <2>5. Untouched(r)' /\ Past(r)' /\ Present(r)'
    BY <1>2, <2>2, <2>3 DEF Untouched, Past, Present, At, Live, InCreate, InTry, InHandler, RowOf
  <2>6. Afterwards(r)' /\ Heard(r)' /\ Erased(r)'
    BY <1>2, <2>2, ConstantsOK DEF RunInv, Afterwards, Heard, Erased, RowOf, ToldOf
  <2>7. QED BY <2>4, <2>5, <2>6 DEF RunInv
<1>5. CASE run[r].pc # "unborn"
  <2> DEFINE how == IF IsLive(r) THEN "killed" ELSE run[r].exit
  <2>1. run'[r] = [EndedAs(r, "gone", how) EXCEPT !.executionId = 0]
    BY <1>1, <1>5 DEF Vanish
  <2>2. run'[r].pc = "gone" /\ run'[r].exit = how /\ run'[r].task = run[r].task
    BY <1>1, <2>1 DEF EndedAs, RunState
  <2>3. Birth(r)'
    BY <1>2, <1>5, <2>2 DEF RunInv, Birth, At, IsLive, Live, InCreate, InTry, InHandler
  <2>4. Untouched(r)' /\ Past(r)' /\ Present(r)'
    BY <2>2 DEF Untouched, Past, Present, At, Live, InCreate, InTry, InHandler
  <2>5. Afterwards(r)' /\ Heard(r)' /\ Erased(r)'
    BY <1>2, <1>3, <2>2 DEF RunInv, Afterwards, Heard, Erased, RowOf, ToldOf
  <2>6. QED BY <2>3, <2>4, <2>5 DEF RunInv
<1>6. QED BY <1>4, <1>5

(* Orphan recovery at start.                                                 *)
LEMMA StartInv ==
  ASSUME TypeOK, NEW r \in Runs, RunInv(r), Start
  PROVE  RunInv(r)'
<1>1. /\ up = "down" /\ up' = "up" /\ run' = run /\ told' = told
      /\ tasks' = tasks /\ spawned' = spawned
  BY DEF Start
<1>2. \A j \in Attempts :
        RowOf(r, j)' = IF RowOf(r, j) = "pending" THEN "cancelled" ELSE RowOf(r, j)
  BY RowsType DEF Start, RowOf
<1>3. ~At(r, Live \cup {"done"})
  BY <1>1 DEF RunInv, Birth
<1>4. \A j \in Attempts : Settled(<<r, j>>) => Settled(<<r, j>>)'
  BY <1>1, <1>2 DEF Settled, RowOf, Terminal
<1>5. Birth(r)'
  BY <1>1 DEF RunInv, Birth, At
<1>6. Untouched(r)' /\ Past(r)' /\ Present(r)'
  BY <1>1, <1>2, <1>3
     DEF RunInv, Untouched, Past, Present, At, Live, InCreate, InTry, InHandler
<1>7. Afterwards(r)'
  BY <1>1, <1>2, <1>4 DEF RunInv, Afterwards
<1>8. Heard(r)'
  BY <1>1, <1>2, RowsType DEF RunInv, Heard, ToldOf, TypeOK, Terminal
<1>9. Erased(r)'
  BY <1>1, <1>2 DEF RunInv, Erased
<1>10. QED BY <1>5, <1>6, <1>7, <1>8, <1>9 DEF RunInv

(* Rows deleted by a user, one by one or with their task.                    *)
LEMMA DeletedInv ==
  ASSUME TypeOK, NEW r \in Runs, RunInv(r), UNCHANGED <<up, told, spawned, run>>,
         \A j \in Attempts : \/ RowOf(r, j)' = RowOf(r, j)
                             \/ /\ RowOf(r, j) # "absent" /\ RowOf(r, j)' = "deleted"
                                /\ RowOf(r, j) # "pending" \/ run[r].pc # "running",
         tasks' \subseteq tasks,
         run[r].task \in Tasks \ tasks' =>
            /\ run[r].pc # "running"
            /\ \A j \in Attempts : RowOf(r, j)' \in {"absent", "deleted"}
  PROVE  RunInv(r)'
<1>0. run[r].attempt \in Attempts /\ 0 \in Attempts
  BY ZeroAttempt DEF TypeOK, RunState
<1>1. \A j \in Attempts : Settled(<<r, j>>) => Settled(<<r, j>>)'
  BY DEF Settled, RowOf
<1>2. Birth(r)'
  BY DEF RunInv, Birth, At
<1>3. Untouched(r)'
  BY <1>0 DEF RunInv, Untouched, At
<1>4. Past(r)'
  BY <1>0, <1>1 DEF RunInv, Past, At, Over
<1>5. Present(r)'
  BY <1>0, <1>1 DEF RunInv, Present, At, ToldOf
<1>6. Afterwards(r)' /\ Heard(r)'
  BY <1>1 DEF RunInv, Afterwards, Heard, ToldOf
<1>7. Erased(r)'
  BY DEF Erased
<1>8. QED BY <1>2, <1>3, <1>4, <1>5, <1>6, <1>7 DEF RunInv

(* New runs.                                                                 *)
LEMMA SpawnInv ==
  ASSUME TypeOK, NEW r \in Runs, RunInv(r), UNCHANGED <<up, tasks, row, told>>,
         up # "down", NEW q \in Seq(Tasks), spawned + Len(q) <= MaxRuns, Spawn(q)
  PROVE  RunInv(r)'
<1>1. /\ Len(q) \in Nat /\ DOMAIN q = 1..Len(q) /\ spawned \in Nat /\ r \in Nat
      /\ r >= 1 /\ run \in [Runs -> RunState]
      /\ spawned' = spawned + Len(q)
  <2>1. run \in [Runs -> RunState] /\ spawned \in 0..MaxRuns /\ r \in 1..MaxRuns
    BY DEF TypeOK, Runs
  <2>2. spawned' = spawned + Len(q)
    BY DEF Spawn
  <2>3. QED BY <2>1, <2>2, ConstantsOK
<1>2. CASE r - spawned \in DOMAIN q
  <2>1. /\ run'[r].pc = "waiting" /\ run'[r].attempt = 0 /\ run'[r].exit = "none"
        /\ run'[r].task = q[r - spawned]
    BY <1>1, <1>2 DEF Spawn, Unborn
  <2>2. r > spawned /\ r <= spawned'
    BY <1>1, <1>2
  <2>3. run[r].pc = "unborn" /\ \A j \in Attempts : RowOf(r, j) = "absent"
    BY <2>2 DEF RunInv, Birth, Untouched, At
  <2>4. q[r - spawned] \in Tasks
    BY <1>1, <1>2
  <2>5. Birth(r)'
    BY <1>1, <2>1, <2>2, <2>4 DEF Birth, At, Live
  <2>6. Untouched(r)'
    BY <2>1, <2>3 DEF Untouched, At, RowOf
  <2>7. Past(r)' /\ Present(r)'
    <3>1. \A j \in Attempts : ~(j < 0)
      BY DEF Attempts
    <3>2. QED BY <2>1, <3>1 DEF Past, Present, At, InTry, InHandler
  <2>8. Afterwards(r)' /\ Heard(r)' /\ Erased(r)'
    BY <2>1, <2>3 DEF RunInv, Afterwards, Heard, Erased, RowOf, ToldOf
  <2>9. QED BY <2>5, <2>6, <2>7, <2>8 DEF RunInv
<1>3. CASE r - spawned \notin DOMAIN q
  <2>1. run'[r] = run[r]
    BY <1>3 DEF Spawn
  <2>2. r > spawned' <=> r > spawned
    BY <1>1, <1>3
  <2>3. Keeps(r)
    BY <2>1, <2>2 DEF Keeps, RowOf, ToldOf
  <2>4. QED BY <2>3, Frame
<1>4. QED BY <1>2, <1>3

LEMMA AwakeStep ==
  ASSUME TypeOK, Awake, [Next]_vars
  PROVE  Awake'
<1>0. PollIdle.pc = "idle" /\ ClientIdle.pc = "idle"
  BY DEF PollIdle, ClientIdle
<1>1. CASE Start
  BY <1>1 DEF Start, Awake
<1>2. CASE Vanish
  BY <1>0, <1>2 DEF Vanish, Awake
<1>3. CASE Stop
  BY <1>0, <1>3 DEF Stop, Awake
<1>4. ASSUME UNCHANGED <<up, poll, client>>
      PROVE  Awake'
  BY <1>4 DEF Awake
<1>5. CASE PollSnapshot \/ PollClaim \/ PollError \/ PollSpawn
  BY <1>5 DEF PollSnapshot, PollClaim, PollError, PollSpawn, Awake
<1>6. ASSUME NEW c \in Clients, ClientStep(c)
      PROVE  Awake'
  <2>1. up = "up" /\ up' = up
    BY <1>6 DEF ClientStep, Trigger, DeleteTask, ReadExecution, ExecuteTaskNow, Answered,
                CancelByExecution, DeleteTaskCommit, DeleteTaskFailed, Idle, Serves, Awake
  <2>2. QED BY <2>1 DEF Awake
<1>7. ASSUME NEW r \in Runs, RunStep(r) \/ DatabaseError(r)
      PROVE  UNCHANGED <<up, poll, client>>
  BY <1>7 DEF RunStep, DatabaseError, Elsewhere, Acquire, CreateExecution, PublishId,
         LoadPair, CommitAttempt, Emit, EmitFor, Decide, RefuseDone, CreateRetry, RetryPause,
         Interrupted, CancelExecution, AbortDone, Finished
<1>8. CASE \/ \E t \in Tasks : Tick(t) \/ CancelTask(t)
           \/ \E e \in Rows : DeleteExecution(e)
           \/ UNCHANGED vars
  BY <1>4, <1>8 DEF Tick, CancelTask, DeleteExecution, vars
<1>9. QED BY <1>1, <1>2, <1>3, <1>4, <1>5, <1>6, <1>7, <1>8 DEF Next, Stopped, Crash

LEMMA InitIInv == Init => IInv
<1> SUFFICES ASSUME Init PROVE IInv
  OBVIOUS
<1>1. TypeOK /\ Room
  BY InitType
<1>2. Asking /\ Awake
  BY DEF Init, Asking, Awake, ClientIdle, PollIdle
<1>3. ASSUME NEW r \in Runs PROVE RunInv(r)
  <2>1. /\ run[r].pc = "unborn" /\ run[r].attempt = 0 /\ run[r].exit = "none"
        /\ run[r].task = NoTask /\ r \in Nat /\ r > spawned
    BY ConstantsOK DEF Init, Unborn, Runs
  <2>2. \A j \in Attempts : RowOf(r, j) = "absent" /\ ToldOf(r, j) = "none"
    BY RowsType DEF Init, RowOf, ToldOf
  <2>3. Birth(r) /\ Untouched(r) /\ Past(r) /\ Present(r)
    BY <2>1, <2>2 DEF Birth, Untouched, Past, Present, At, Live, InCreate, InTry, InHandler
  <2>4. Afterwards(r) /\ Heard(r) /\ Erased(r)
    BY <2>1, <2>2, ConstantsOK DEF Afterwards, Heard, Erased
  <2>5. QED BY <2>3, <2>4 DEF RunInv
<1>4. QED BY <1>1, <1>2, <1>3 DEF IInv

(* Every step keeps the invariant.                                           *)
LEMMA NextIInv == IInv /\ [Next]_vars => IInv'
<1> SUFFICES ASSUME IInv, [Next]_vars PROVE IInv'
  OBVIOUS
<1>0. TypeOK /\ Room /\ Asking /\ Awake /\ \A r \in Runs : RunInv(r)
  BY DEF IInv
<1>a. Awake'
  BY <1>0, AwakeStep
<1>b. ASSUME UNCHANGED client
      PROVE  Asking'
  BY <1>0, <1>b DEF Asking
<1>1. CASE Start
  <2>1. \A r \in Runs : RunInv(r)'
    BY <1>0, <1>1, StartInv
  <2>2. TypeOK' /\ Room' /\ Asking'
    BY <1>0, <1>1, <1>b, ProcessType DEF Start
  <2>3. QED BY <1>a, <2>1, <2>2 DEF IInv
<1>2. CASE Vanish
  <2>1. \A r \in Runs : RunInv(r)'
    BY <1>0, <1>2, VanishInv
  <2>2. Asking'
    BY <1>2 DEF Vanish, Asking, ClientIdle
  <2>3. QED BY <1>0, <1>2, <1>a, <2>1, <2>2, VanishType DEF IInv
<1>3. CASE Stop
  <2>1. \A r \in Runs : RunInv(r)'
    BY <1>0, <1>3, MarkedInv DEF Stop, database
  <2>2. TypeOK' /\ Room' /\ Asking'
    BY <1>0, <1>3, <1>b, ProcessType DEF Stop
  <2>3. QED BY <1>a, <2>1, <2>2 DEF IInv
<1>4. ASSUME NEW t \in Tasks, Tick(t)
      PROVE  IInv'
  <2>1. \A r \in Runs : RunInv(r)'
    BY <1>0, <1>4, MarkedInv DEF Tick
  <2>2. TypeOK' /\ Room' /\ Asking'
    BY <1>0, <1>4, <1>b, ProcessType DEF Tick
  <2>3. QED BY <1>a, <2>1, <2>2 DEF IInv
<1>5. ASSUME NEW t \in Tasks, CancelTask(t)
      PROVE  IInv'
  <2>1. \A r \in Runs : RunInv(r)'
    BY <1>0, <1>5, MarkedInv DEF CancelTask, database
  <2>2. TypeOK' /\ Room' /\ Asking'
    BY <1>0, <1>5, <1>b, TableType DEF CancelTask
  <2>3. QED BY <1>a, <2>1, <2>2 DEF IInv
<1>6. ASSUME NEW e \in Rows, DeleteExecution(e)
      PROVE  IInv'
  <2>1. ASSUME NEW r \in Runs
        PROVE  RunInv(r)'
    <3>1. ASSUME NEW j \in Attempts
          PROVE  \/ RowOf(r, j)' = RowOf(r, j)
                 \/ RowOf(r, j) \in Terminal /\ RowOf(r, j)' = "deleted"
      BY <1>0, <1>6, RowsType DEF DeleteExecution, RowOf, TypeOK
    <3>2. \A j \in Attempts :
            \/ RowOf(r, j)' = RowOf(r, j)
            \/ /\ RowOf(r, j) # "absent" /\ RowOf(r, j)' = "deleted"
               /\ RowOf(r, j) # "pending" \/ run[r].pc # "running"
      BY <3>1 DEF Terminal
    <3>3. tasks' = tasks /\ UNCHANGED <<up, told, spawned, run>>
      BY <1>6 DEF DeleteExecution
    <3>4. run[r].task \in Tasks \ tasks' =>
            /\ run[r].pc # "running"
            /\ \A j \in Attempts : RowOf(r, j)' \in {"absent", "deleted"}
      BY <1>0, <3>2, <3>3 DEF RunInv, Erased
    <3>5. QED BY <1>0, <3>2, <3>3, <3>4, DeletedInv
  <2>2. TypeOK' /\ Room' /\ Asking'
    BY <1>0, <1>6, <1>b, TableType DEF DeleteExecution
  <2>3. QED BY <1>a, <2>1, <2>2 DEF IInv
<1>7. CASE PollSnapshot \/ PollClaim \/ PollError
  <2>1. \A r \in Runs : RunInv(r)'
    BY <1>0, <1>7, MarkedInv DEF PollSnapshot, PollClaim, PollError, database
  <2>2. Asking'
    BY <1>7, <1>b DEF PollSnapshot, PollClaim, PollError
  <2>3. QED BY <1>0, <1>7, <1>a, <2>1, <2>2, PollType DEF IInv
<1>8. CASE PollSpawn
  <2>1. up # "down" /\ poll.claimed \in Seq(Tasks) /\ spawned + Len(poll.claimed) <= MaxRuns
    BY <1>0, <1>8 DEF PollSpawn, Awake, TypeOK, PollState, Room
  <2>2. \A r \in Runs : RunInv(r)'
    BY <1>0, <1>8, <2>1, SpawnInv DEF PollSpawn, database
  <2>3. Asking'
    BY <1>8, <1>b DEF PollSpawn
  <2>4. QED BY <1>0, <1>8, <1>a, <2>2, <2>3, PollType DEF IInv
<1>9. ASSUME NEW r \in Runs, RunStep(r) \/ DatabaseError(r)
      PROVE  IInv'
  <2>1. ASSUME NEW q \in Runs
        PROVE  RunInv(q)'
    BY <1>0, <1>9, RunStepOwn, RunStepOthers
  <2>2. UNCHANGED client
    BY <1>9 DEF RunStep, DatabaseError, Elsewhere, Acquire, CreateExecution, PublishId,
         LoadPair, CommitAttempt, Emit, EmitFor, Decide, RefuseDone, CreateRetry, RetryPause,
         Interrupted, CancelExecution, AbortDone, Finished
  <2>3. TypeOK' /\ Room'
    BY <1>0, <1>9, RunStepType
  <2>4. QED BY <1>a, <1>b, <2>1, <2>2, <2>3 DEF IInv
<1>10. ASSUME NEW c \in Clients, ClientStep(c)
       PROVE  IInv'
  <2>1. TypeOK' /\ Room' /\ Asking'
    <3>1. /\ \A r \in Runs : run[r].pc = "unborn" => \A j \in Attempts : RowOf(r, j) = "absent"
          /\ \A r \in Runs : run[r].pc # "unborn" => run[r].task \in Tasks
      BY <1>0 DEF RunInv, Birth, Untouched, At
    <3>2. QED BY <1>0, <1>10, <3>1, RequestType
  <2>2. CASE ExecuteTaskNow(c)
    <3>1. CASE UNCHANGED <<registry, spawned, run>>
      BY <1>0, <1>a, <2>1, <2>2, <3>1, MarkedInv DEF ExecuteTaskNow, database, IInv
    <3>2. CASE CanSpawn(1 + Len(poll.claimed)) /\ Spawn(<<client[c].task>>)
      <4>1. client[c].task \in Tasks /\ up # "down"
        BY <1>0, <2>2 DEF ExecuteTaskNow, Asking, Awake
      <4>2. /\ spawned \in Nat /\ MaxRuns \in Nat /\ Len(poll.claimed) \in Nat
        BY <1>0, ConstantsOK DEF TypeOK, PollState
      <4>3. <<client[c].task>> \in Seq(Tasks) /\ Len(<<client[c].task>>) = 1
        BY <4>1
      <4>4. spawned + Len(<<client[c].task>>) <= MaxRuns
        BY <3>2, <4>2, <4>3 DEF CanSpawn
      <4>5. UNCHANGED <<up, tasks, row, told>>
        BY <2>2 DEF ExecuteTaskNow, database
      <4>6. \A r \in Runs : RunInv(r)'
        BY <1>0, <3>2, <4>1, <4>3, <4>4, <4>5, SpawnInv
      <4>7. QED BY <1>a, <2>1, <4>6 DEF IInv
    <3>3. QED BY <2>2, <3>1, <3>2 DEF ExecuteTaskNow
  <2>3. CASE DeleteTaskCommit(c)
    <3> DEFINE t == client[c].task
    <3>0. /\ tasks' = tasks \ {t} /\ UNCHANGED <<up, told, spawned, run>>
          /\ \A q \in Runs : ~(run[q].task = t /\ run[q].pc = "running")
          /\ row' = [e \in Rows |-> IF run[e[1]].task = t /\ row[e] # "absent"
                                    THEN "deleted" ELSE row[e]]
      BY <2>3 DEF DeleteTaskCommit
    <3>1. ASSUME NEW r \in Runs
          PROVE  RunInv(r)'
      <4>1. \A j \in Attempts : RowOf(r, j)' = IF run[r].task = t /\ RowOf(r, j) # "absent"
                                               THEN "deleted" ELSE RowOf(r, j)
        BY <3>0, RowsType DEF RowOf
      <4>2. run[r].task \in Tasks \ tasks' =>
              /\ run[r].pc # "running"
              /\ \A j \in Attempts : RowOf(r, j)' \in {"absent", "deleted"}
        BY <1>0, <3>0, <4>1 DEF RunInv, Erased
      <4>3. tasks' \subseteq tasks
        BY <3>0
      <4>4. \A j \in Attempts :
              \/ RowOf(r, j)' = RowOf(r, j)
              \/ /\ RowOf(r, j) # "absent" /\ RowOf(r, j)' = "deleted"
                 /\ RowOf(r, j) # "pending" \/ run[r].pc # "running"
        BY <3>0, <4>1
      <4>5. QED BY <1>0, <3>0, <4>2, <4>3, <4>4, DeletedInv
    <3>2. QED BY <1>a, <2>1, <3>1 DEF IInv
  <2>4. CASE \/ \E t \in Tasks : Trigger(c, t) \/ DeleteTask(c, t)
             \/ \E e \in Rows : ReadExecution(c, e)
             \/ Answered(c) \/ CancelByExecution(c) \/ DeleteTaskFailed(c)
    <3>1. UNCHANGED <<up, tasks, row, told, spawned>> /\ (run' = run \/ \E x : CancelRun(x))
      BY <2>4 DEF Trigger, DeleteTask, ReadExecution, Answered, CancelByExecution,
                  DeleteTaskFailed, database
    <3>2. \A r \in Runs : RunInv(r)'
      BY <1>0, <3>1, MarkedInv
    <3>3. QED BY <1>a, <2>1, <3>2 DEF IInv
  <2>5. QED BY <1>10, <2>2, <2>3, <2>4 DEF ClientStep
<1>11. CASE UNCHANGED vars
  <2>1. \A r \in Runs : RunInv(r)'
    BY <1>0, <1>11, MarkedInv DEF vars, database
  <2>2. TypeOK' /\ Room' /\ Asking'
    BY <1>0, <1>11 DEF vars, database, TypeOK, Room, Asking
  <2>3. QED BY <1>a, <2>1, <2>2 DEF IInv
<1>12. QED BY <1>1, <1>2, <1>3, <1>4, <1>5, <1>6, <1>7, <1>8, <1>9, <1>10, <1>11
           DEF Next, Stopped, Crash

-----------------------------------------------------------------------------
(* The theorems.                                                             *)

LEMMA Inductive == Spec => []IInv
<1>1. QED BY InitIInv, NextIInv, PTL DEF Spec

(* Every variable stays within what the code can store; in particular no run *)
(* goes past max_retries and the registry names only runs that were spawned. *)
THEOREM TypeCorrect == Spec => []TypeOK
<1>1. IInv => TypeOK
  BY DEF IInv
<1>2. QED BY <1>1, Inductive, PTL

(* Whatever is cancelled, triggered, deleted or killed meanwhile, a row is   *)
(* left open only by a run that was cancelled, broken by the database, or    *)
(* killed with a process that has not been started again.                    *)
THEOREM OrphansRecovered == Spec => []NoOrphanRow
<1>1. IInv => NoOrphanRow
  <2> SUFFICES ASSUME IInv, NEW r \in Runs, NEW k \in Attempts, row[<<r, k>>] = "pending"
               PROVE  \/ IsLive(r) /\ run[r].attempt = k
                      \/ run[r].exit \in {"cancelled", "error"}
                      \/ run[r].exit = "killed" /\ up = "down"
    BY DEF NoOrphanRow
  <2>0. RunInv(r) /\ run[r] \in RunState /\ run[r].attempt \in Attempts
    BY DEF IInv, TypeOK, RunState
  <2>1. RowOf(r, k) = "pending" /\ "pending" \notin Over
    BY DEF RowOf, Over, Terminal
  <2>2. CASE IsLive(r)
    <3>1. ~(k < run[r].attempt) /\ ~(k > run[r].attempt)
      BY <2>0, <2>1, <2>2 DEF RunInv, Past, Untouched, At, IsLive
    <3>2. QED BY <2>0, <2>2, <3>1, ConstantsOK DEF Attempts
  <2>3. CASE ~IsLive(r)
    <3>1. run[r].exit # "none"
      BY <2>0, <2>1, <2>3 DEF RunInv, Birth, Untouched, At, IsLive
    <3>2. run[r].exit # "returned"
      BY <2>0, <2>1 DEF RunInv, Afterwards, Settled, RowOf, Terminal
    <3>3. run[r].exit = "killed" => up = "down"
      BY <2>0, <2>1 DEF RunInv, Afterwards
    <3>4. QED BY <2>0, <3>1, <3>2, <3>3 DEF RunState
  <2>4. QED BY <2>2, <2>3
<1>2. QED BY <1>1, Inductive, PTL

(* A run that returns has settled every attempt it made, and what it told    *)
(* the subscribers of each is what the database holds.                       *)
THEOREM ReturnsSettled == Spec => []ReturnedRunsSettled
<1>1. IInv => ReturnedRunsSettled
  BY DEF IInv, RunInv, Afterwards, ReturnedRunsSettled, RowOf
<1>2. QED BY <1>1, Inductive, PTL

(* No trigger, poll or retry revives a deleted task.                         *)
THEOREM DeletionFinal == Spec => []DeletedTaskIsGone
<1>1. IInv => DeletedTaskIsGone
  BY DEF IInv, RunInv, Erased, DeletedTaskIsGone, RowOf
<1>2. QED BY <1>1, Inductive, PTL

(* Each step of the scheduler is one step of the execution history, or none. *)
LEMMA HistoryStep ==
  ASSUME IInv, [Next]_vars
  PROVE  [Lifecycle!Next]_<<row, told>>
<1>0. /\ TypeOK /\ \A r \in Runs : RunInv(r) /\ run[r] \in RunState
      /\ \A r \in Runs : run[r].attempt \in Attempts
      /\ row \in [Rows -> Status] /\ told \in [Rows -> {"none"} \cup Terminal]
      /\ Lifecycle!Rows = Rows /\ Lifecycle!Terminal = Terminal
  BY DEF IInv, TypeOK, RunState, Lifecycle!Rows, Rows, Lifecycle!Terminal, Terminal
<1>s. ASSUME NEW e \in Rows, NEW s \in Terminal, row[e] = "pending",
             row' = [row EXCEPT ![e] = s], told' = told
      PROVE  Lifecycle!Next
  <2>1. row' = [f \in Rows |-> IF f \in {e} THEN s ELSE row[f]]
    BY <1>0, <1>s
  <2>2. Lifecycle!Settle({e}, s) /\ {e} \in SUBSET Rows
    BY <1>0, <1>s, <2>1 DEF Lifecycle!Settle
  <2>3. QED BY <1>0, <2>2 DEF Lifecycle!Next
<1>1. CASE Start
  <2> DEFINE E == {e \in Rows : row[e] = "pending"}
  <2>1. row' = [f \in Rows |-> IF f \in E THEN "cancelled" ELSE row[f]] /\ told' = told
    BY <1>1 DEF Start
  <2>2. Lifecycle!Settle(E, "cancelled") /\ E \in SUBSET Rows
    BY <1>0, <2>1 DEF Lifecycle!Settle
  <2>3. "cancelled" \in Lifecycle!Terminal
    BY DEF Lifecycle!Terminal
  <2>4. QED BY <1>0, <2>2, <2>3 DEF Lifecycle!Next
<1>2. ASSUME NEW e \in Rows, DeleteExecution(e)
      PROVE  Lifecycle!Next
  <2>1. row' = [f \in Rows |-> IF f \in {e} THEN "deleted" ELSE row[f]] /\ told' = told
    BY <1>0, <1>2 DEF DeleteExecution
  <2>2. Lifecycle!Remove({e}) /\ {e} \in SUBSET Rows
    BY <1>0, <1>2, <2>1 DEF DeleteExecution, Lifecycle!Remove, Terminal
  <2>3. QED BY <1>0, <2>2 DEF Lifecycle!Next
<1>3. ASSUME NEW c \in Clients, DeleteTaskCommit(c)
      PROVE  Lifecycle!Next
  <2> DEFINE E == {e \in Rows : run[e[1]].task = client[c].task /\ row[e] # "absent"}
  <2>1. row' = [f \in Rows |-> IF f \in E THEN "deleted" ELSE row[f]] /\ told' = told
    BY <1>3 DEF DeleteTaskCommit
  <2>2. Lifecycle!Remove(E) /\ E \in SUBSET Rows
    BY <1>0, <2>1 DEF Lifecycle!Remove
  <2>3. QED BY <1>0, <2>2 DEF Lifecycle!Next
<1>4. ASSUME NEW r \in Runs, CreateExecution(r), row' # row
      PROVE  Lifecycle!Next
  <2>1. row' = [row EXCEPT ![First(r)] = "pending"] /\ told' = told /\ run[r].pc = "creating"
    BY <1>4 DEF CreateExecution, Proceeds
  <2>2. First(r) \in Rows /\ row[First(r)] = "absent" /\ First(r)[2] = 0
    BY <1>0, <2>1, ZeroAttempt DEF RunInv, Untouched, At, RowOf, First, Rows
  <2>3. Lifecycle!Insert(First(r))
    BY <2>1, <2>2 DEF Lifecycle!Insert
  <2>4. QED BY <1>0, <2>2, <2>3 DEF Lifecycle!Next
<1>5. ASSUME NEW r \in Runs, CreateRetry(r), row' # row
      PROVE  Lifecycle!Next
  <2> DEFINE k == run[r].attempt
             e == <<r, k + 1>>
  <2>1. row' = [row EXCEPT ![e] = "pending"] /\ told' = told /\ run[r].pc = "retrying"
    BY <1>5 DEF CreateRetry, Proceeds
  <2>2. k < MaxRetries /\ row[<<r, k>>] \in Retried \cup {"deleted"}
    BY <1>0, <2>1 DEF RunInv, Present, At, RowOf
  <2>3. k \in Attempts /\ k + 1 \in Attempts /\ k + 1 > k
    BY <1>0, <2>2, ConstantsOK DEF Attempts
  <2>4. row[e] = "absent"
    BY <1>0, <2>1, <2>3 DEF RunInv, Untouched, At, Live, InTry, RowOf
  <2>5. Lifecycle!Insert(e)
    BY <2>1, <2>2, <2>3, <2>4 DEF Lifecycle!Insert, Lifecycle!Retried, Retried
  <2>6. QED BY <1>0, <2>3, <2>5, RowsType DEF Lifecycle!Next
<1>6. ASSUME NEW r \in Runs, LoadPair(r), row' # row
      PROVE  Lifecycle!Next
  <2>1. /\ row' = [row EXCEPT ![Current(r)] = "failed"] /\ told' = told
        /\ row[Current(r)] # "deleted" /\ run[r].pc = "loading"
    BY <1>6 DEF LoadPair, Proceeds
  <2>2. Current(r) \in Rows /\ row[Current(r)] = "pending"
    BY <1>0, <2>1 DEF RunInv, Present, At, RowOf, Current, Rows
  <2>3. QED BY <1>s, <2>1, <2>2 DEF Terminal
<1>7. ASSUME NEW r \in Runs, CommitAttempt(r)
      PROVE  Lifecycle!Next
  <2>1. PICK s \in {"completed", "failed", "timeout"} : row' = [row EXCEPT ![Current(r)] = s]
    BY <1>7 DEF CommitAttempt
  <2>2. told' = told /\ run[r].pc = "running" /\ s \in Terminal
    BY <1>7 DEF CommitAttempt, Proceeds, Terminal
  <2>3. Current(r) \in Rows /\ row[Current(r)] = "pending"
    BY <1>0, <2>2 DEF RunInv, Present, At, RowOf, Current, Rows
  <2>4. QED BY <1>s, <2>1, <2>2, <2>3
<1>8. ASSUME NEW r \in Runs, CancelExecution(r), row' # row
      PROVE  Lifecycle!Next
  <2>1. /\ row' = [row EXCEPT ![First(r)] = "cancelled"] /\ told' = told
        /\ ~AlreadySettled(First(r)) /\ run[r].pc = "aborting"
    BY <1>8 DEF CancelExecution, Proceeds
  <2>2. First(r) \in Rows /\ row[First(r)] # "absent"
    BY <1>0, <2>1, ZeroAttempt DEF RunInv, Past, At, InHandler, RowOf, First, Rows
  <2>3. row[First(r)] = "pending"
    BY <1>0, <2>1, <2>2 DEF AlreadySettled, Status
  <2>4. QED BY <1>s, <2>1, <2>2, <2>3 DEF Terminal
<1>9. ASSUME NEW r \in Runs, Emit(r)
      PROVE  Lifecycle!Next
  <2>1. ASSUME NEW k \in Attempts, NEW from, NEW to, EmitFor(r, from, to, <<r, k>>),
               run[r].verdict \in Terminal, ToldOf(r, k) = "none",
               RowOf(r, k) \in {run[r].verdict, "deleted"}
        PROVE  Lifecycle!Next
    <3>1. Lifecycle!Publish(<<r, k>>, run[r].verdict)
      BY <1>0, <2>1 DEF EmitFor, Lifecycle!Publish, RowOf, ToldOf
    <3>2. QED BY <1>0, <2>1, <3>1, RowsType DEF Lifecycle!Next
  <2>2. run[r].attempt \in Attempts /\ 0 \in Attempts /\ Present(r)
    BY <1>0, ZeroAttempt DEF RunInv
  <2>3. CASE EmitFor(r, "committed", "notifying", Current(r))
    BY <2>1, <2>2, <2>3 DEF EmitFor, Proceeds, Present, At, Current
  <2>4. CASE EmitFor(r, "refused", "refuseNotifying", Current(r))
    BY <2>1, <2>2, <2>4 DEF EmitFor, Proceeds, Present, At, Current
  <2>5. CASE EmitFor(r, "aborted", "abortNotifying", First(r))
    BY <2>1, <2>2, <2>5 DEF EmitFor, Proceeds, Present, At, First, Terminal
  <2>6. QED BY <1>9, <2>3, <2>4, <2>5 DEF Emit
<1>10. ASSUME NEW r \in Runs, \/ Acquire(r) \/ PublishId(r) \/ Decide(r) \/ RefuseDone(r)
                              \/ RetryPause(r) \/ Interrupted(r) \/ AbortDone(r)
                              \/ Finished(r) \/ DatabaseError(r)
       PROVE  UNCHANGED <<row, told>>
  BY <1>10 DEF Acquire, PublishId, Decide, RefuseDone, RetryPause, Interrupted, AbortDone,
               Finished, DatabaseError
<1>11. ASSUME NEW r \in Runs, CreateExecution(r) \/ CreateRetry(r) \/ LoadPair(r)
                              \/ CancelExecution(r)
       PROVE  told' = told
  BY <1>11 DEF CreateExecution, CreateRetry, LoadPair, CancelExecution
<1>12. ASSUME NEW r \in Runs, RunStep(r) \/ DatabaseError(r)
       PROVE  [Lifecycle!Next]_<<row, told>>
  BY <1>4, <1>5, <1>6, <1>7, <1>8, <1>9, <1>10, <1>11, <1>12 DEF RunStep
<1>13. ASSUME NEW c \in Clients, ClientStep(c)
       PROVE  [Lifecycle!Next]_<<row, told>>
  BY <1>3, <1>13 DEF ClientStep, Trigger, DeleteTask, ReadExecution, ExecuteTaskNow,
     Answered, CancelByExecution, DeleteTaskFailed, database
<1>14. CASE \/ Stop \/ Vanish \/ UNCHANGED vars
            \/ \E t \in Tasks : Tick(t) \/ CancelTask(t)
            \/ PollSnapshot \/ PollClaim \/ PollError \/ PollSpawn
  BY <1>14 DEF Stop, Vanish, vars, Tick, CancelTask, PollSnapshot, PollClaim, PollError,
     PollSpawn, database
<1>15. QED BY <1>1, <1>2, <1>12, <1>13, <1>14 DEF Next, Stopped, Crash

(* The scheduler implements the execution history: a row is inserted PENDING *)
(* once, settles once, never changes afterwards, and its terminal event is   *)
(* published once, after the commit, with the committed status.              *)
THEOREM HistoryImplemented == Spec => ImplementsLifecycle
<1>1. Init => Lifecycle!Init
  BY DEF Init, Lifecycle!Init, Rows, Lifecycle!Rows
<1>2. IInv /\ [Next]_vars => [Lifecycle!Next]_<<row, told>>
  BY HistoryStep
<1>3. QED BY <1>1, <1>2, Inductive, PTL DEF Spec, ImplementsLifecycle, Lifecycle!Spec

-----------------------------------------------------------------------------
(* Mutual exclusion of the runs of a task.  It rests on the polling loop     *)
(* being the only one that spawns: the registry then holds every run that is *)
(* not over, what the loop excluded stays a superset of the registry until   *)
(* it has claimed, and what it claimed stays unregistered until it spawns.   *)
Polled ==
  /\ \A c \in Clients : client[c].pc # "triggering"
  /\ \A r \in Runs : At(r, Live \cup {"done"}) => registry[run[r].task] = r
  /\ poll.pc = "claiming" => Registered \subseteq poll.excluded
  /\ poll.pc = "claimed" =>
       /\ \A i \in 1..Len(poll.claimed) : registry[poll.claimed[i]] = 0
       /\ \A i, j \in 1..Len(poll.claimed) : poll.claimed[i] = poll.claimed[j] => i = j

(* The registry only loses entries, and no run begins.                       *)
LEMMA PolledShrinks ==
  ASSUME TypeOK, TypeOK', Polled, poll' = poll \/ poll' = PollIdle,
         \A c \in Clients : client'[c].pc # "triggering",
         \A t \in Tasks : registry'[t] \in {0, registry[t]},
         \A r \in Runs : At(r, Live \cup {"done"})' =>
            /\ At(r, Live \cup {"done"}) /\ run'[r].task = run[r].task /\ run[r].task \in Tasks
            /\ registry'[run[r].task] = registry[run[r].task]
  PROVE  Polled'
<1>1. \A r \in Runs : At(r, Live \cup {"done"})' => registry'[run'[r].task] = r
  BY DEF Polled
<1>2. CASE poll' = PollIdle
  BY <1>1, <1>2 DEF Polled, PollIdle
<1>3. CASE poll' = poll
  <2>1. Registered' \subseteq Registered
    BY DEF Registered
  <2>2. \A i \in 1..Len(poll.claimed) : poll.claimed[i] \in Tasks
    BY DEF TypeOK, PollState
  <2>3. poll.pc = "claiming" => Registered' \subseteq poll.excluded
    BY <2>1 DEF Polled
  <2>4. poll.pc = "claimed" =>
          /\ \A i \in 1..Len(poll.claimed) : registry'[poll.claimed[i]] = 0
          /\ \A i, j \in 1..Len(poll.claimed) : poll.claimed[i] = poll.claimed[j] => i = j
    BY <2>2 DEF Polled
  <2>5. QED BY <1>1, <1>3, <2>3, <2>4 DEF Polled
<1>4. QED BY <1>2, <1>3

LEMMA PolledSpawns ==
  ASSUME TypeOK, TypeOK', Room, Polled, PollSpawn, \A r \in Runs : Birth(r)
  PROVE  Polled'
<1> DEFINE q == poll.claimed
<1>0. /\ q \in Seq(Tasks) /\ Len(q) \in Nat /\ DOMAIN q = 1..Len(q)
      /\ spawned \in Nat /\ poll' = PollIdle /\ client' = client
      /\ \A i \in 1..Len(q) : q[i] \in Tasks
  <2>1. q \in Seq(Tasks) /\ spawned \in 0..MaxRuns
    BY DEF TypeOK, PollState
  <2>2. poll' = PollIdle /\ client' = client
    BY DEF PollSpawn
  <2>3. QED BY <2>1, <2>2, ConstantsOK
<1>1. /\ run' = [r \in Runs |-> IF r - spawned \in DOMAIN q
                                THEN [Unborn EXCEPT !.task = q[r - spawned], !.pc = "waiting"]
                                ELSE run[r]]
      /\ registry' = [t \in Tasks |-> IF \E i \in DOMAIN q : q[i] = t
                                      THEN spawned + (CHOOSE i \in DOMAIN q : q[i] = t)
                                      ELSE registry[t]]
  BY DEF PollSpawn, Spawn
<1>2. /\ \A i \in 1..Len(q) : registry[q[i]] = 0
      /\ \A i, j \in 1..Len(q) : q[i] = q[j] => i = j
  BY DEF PollSpawn, Polled
<1>3. ASSUME NEW r \in Runs, At(r, Live \cup {"done"})'
      PROVE  registry'[run'[r].task] = r
  <2>1. CASE r - spawned \in DOMAIN q
    <3> DEFINE i == r - spawned
    <3>1. run'[r].task = q[i]
      BY <1>1, <2>1 DEF Unborn
    <3>2. q[i] \in Tasks /\ i \in 1..Len(q)
      BY <1>0, <2>1
    <3>3. (CHOOSE k \in DOMAIN q : q[k] = q[i]) = i
      BY <1>0, <1>2, <3>2
    <3>4. registry'[q[i]] = spawned + i
      BY <1>0, <1>1, <3>2, <3>3
    <3>5. r \in Nat
      BY DEF Runs
    <3>6. QED BY <1>0, <3>1, <3>4, <3>5
  <2>2. CASE r - spawned \notin DOMAIN q
    <3>1. run'[r] = run[r]
      BY <1>1, <2>2
    <3>2. At(r, Live \cup {"done"}) /\ run[r].task \in Tasks
      BY <1>3, <3>1 DEF At, Birth, Live, InCreate, InTry, InHandler
    <3>3. registry[run[r].task] = r /\ r # 0
      BY <3>2 DEF Polled, Runs
    <3>4. ~\E i \in DOMAIN q : q[i] = run[r].task
      BY <1>0, <1>2, <3>3
    <3>5. QED BY <1>1, <3>1, <3>2, <3>3, <3>4
  <2>3. QED BY <2>1, <2>2
<1>4. QED BY <1>0, <1>3 DEF Polled, PollIdle

LEMMA PolledStep ==
  ASSUME "trigger" \notin Ops, IInv, IInv', Polled, [Next]_vars
  PROVE  Polled'
<1>0. /\ TypeOK /\ TypeOK' /\ Room /\ \A r \in Runs : Birth(r) /\ run[r] \in RunState
      /\ run \in [Runs -> RunState] /\ registry \in [Tasks -> {0} \cup Runs]
  BY DEF IInv, TypeOK, RunInv
<1>t. \A r \in Runs : At(r, Live \cup {"done"}) => run[r].task \in Tasks
  BY <1>0 DEF Birth, At, Live, InCreate, InTry, InHandler
<1>f. ASSUME registry' = registry, poll' = poll \/ poll' = PollIdle,
             \A c \in Clients : client'[c].pc # "triggering",
             \A r \in Runs : At(r, Live \cup {"done"})' =>
                At(r, Live \cup {"done"}) /\ run'[r].task = run[r].task
      PROVE  Polled'
  BY <1>0, <1>t, <1>f, PolledShrinks
<1>c. ASSUME client' = client
      PROVE  \A c \in Clients : client'[c].pc # "triggering"
  BY <1>c DEF Polled
<1>r. ASSUME run' = run
      PROVE  \A r \in Runs : At(r, Live \cup {"done"})' =>
                At(r, Live \cup {"done"}) /\ run'[r].task = run[r].task
  BY <1>r DEF At
<1>m. ASSUME NEW x, CancelRun(x)
      PROVE  \A r \in Runs : At(r, Live \cup {"done"})' =>
                At(r, Live \cup {"done"}) /\ run'[r].task = run[r].task
  BY <1>0, <1>m DEF CancelRun, At, RunState
<1>1. CASE Start \/ (\E t \in Tasks : Tick(t)) \/ (\E e \in Rows : DeleteExecution(e))
           \/ UNCHANGED vars
  BY <1>1, <1>f, <1>c, <1>r DEF Start, Tick, DeleteExecution, vars
<1>2. CASE Vanish
  <2>1. ASSUME NEW r \in Runs
        PROVE  ~At(r, Live \cup {"done"})'
    <3>1. run'[r].pc \in {"unborn", "gone"}
      <4>1. CASE run[r].pc = "unborn"
        BY <1>2, <4>1 DEF Vanish, Unborn
      <4>2. CASE run[r].pc # "unborn"
        <5> DEFINE how == IF IsLive(r) THEN "killed" ELSE run[r].exit
        <5>1. run'[r] = [EndedAs(r, "gone", how) EXCEPT !.executionId = 0]
          BY <1>2, <4>2 DEF Vanish
        <5>2. QED BY <1>0, <5>1 DEF EndedAs, RunState
      <4>3. QED BY <4>1, <4>2
    <3>2. QED BY <3>1 DEF At, Live, InCreate, InTry, InHandler
  <2>2. \A c \in Clients : client'[c].pc # "triggering"
    BY <1>2 DEF Vanish, ClientIdle
  <2>3. QED BY <1>0, <1>2, <2>1, <2>2, PolledShrinks DEF Vanish
<1>3. CASE Stop
  <2>1. \A r \in Runs : At(r, Live \cup {"done"})' =>
          At(r, Live \cup {"done"}) /\ run'[r].task = run[r].task
    BY <1>0, <1>3 DEF Stop, At, RunState
  <2>2. QED BY <1>3, <1>f, <1>c, <2>1 DEF Stop
<1>4. ASSUME NEW t \in Tasks, CancelTask(t)
      PROVE  Polled'
  BY <1>4, <1>f, <1>c, <1>m DEF CancelTask
<1>5. CASE PollSnapshot
  <2>1. /\ poll'.pc = "claiming" /\ poll'.excluded = Registered /\ registry' = registry
        /\ run' = run /\ client' = client /\ Registered' = Registered
    BY <1>5 DEF PollSnapshot, Registered
  <2>2. QED BY <2>1 DEF Polled, At
<1>6. CASE PollClaim
  <2> DEFINE eligible == due \ poll.excluded
             n == MinOf(MinOf(poll.slots, Cardinality(eligible)), MaxRuns - spawned)
  <2>1. PICK q \in Orders(eligible, n) :
          poll' = IF n = 0 THEN PollIdle ELSE [poll EXCEPT !.pc = "claimed", !.claimed = q]
    BY <1>6 DEF PollClaim
  <2>2. /\ registry' = registry /\ run' = run /\ client' = client /\ poll.pc = "claiming"
        /\ poll \in PollState
    BY <1>0, <1>6 DEF PollClaim, TypeOK
  <2>3. CASE poll' = PollIdle
    BY <1>f, <1>c, <1>r, <2>2, <2>3
  <2>4. CASE poll' = [poll EXCEPT !.pc = "claimed", !.claimed = q]
    <3>1. poll'.pc = "claimed" /\ poll'.claimed = q
      BY <2>2, <2>4 DEF PollState
    <3>2. q \in [1..n -> eligible] /\ \A i, j \in 1..n : q[i] = q[j] => i = j
      BY <2>1 DEF Orders
    <3>3. q \in Seq(Tasks) /\ Len(q) \in Nat
      BY <1>0, <3>1 DEF TypeOK, PollState
    <3>4. DOMAIN q = 1..Len(q) /\ DOMAIN q = 1..n
      BY <3>2, <3>3
    <3>5. \A i \in 1..Len(q) : q[i] \in Tasks /\ q[i] \notin poll.excluded
      BY <1>0, <3>2, <3>4 DEF TypeOK
    <3>6. \A i \in 1..Len(q) : registry[q[i]] = 0
      BY <2>2, <3>5 DEF Polled, Registered
    <3>7. \A r \in Runs : At(r, Live \cup {"done"})' => registry'[run'[r].task] = r
      BY <2>2 DEF Polled, At
    <3>8. QED BY <2>2, <3>1, <3>2, <3>4, <3>6, <3>7 DEF Polled
  <2>5. QED BY <2>1, <2>3, <2>4
<1>7. CASE PollError
  BY <1>7, <1>f, <1>c, <1>r DEF PollError
<1>8. CASE PollSpawn
  BY <1>0, <1>8, PolledSpawns
<1>9. ASSUME NEW c \in Clients, ClientStep(c)
      PROVE  Polled'
  <2>1. ~ExecuteTaskNow(c) /\ \A t \in Tasks : ~Trigger(c, t)
    BY DEF ExecuteTaskNow, Polled, Trigger, Idle, Serves
  <2>2. registry' = registry /\ poll' = poll
    BY <1>9, <2>1 DEF ClientStep, DeleteTask, ReadExecution, Answered, CancelByExecution,
                      DeleteTaskCommit, DeleteTaskFailed
  <2>3. run' = run \/ \E x : CancelRun(x)
    BY <1>9, <2>1 DEF ClientStep, DeleteTask, ReadExecution, Answered, CancelByExecution,
                      DeleteTaskCommit, DeleteTaskFailed
  <2>4. \E x : x.pc # "triggering" /\ client' = [client EXCEPT ![c] = x]
    BY <1>9, <2>1 DEF ClientStep, DeleteTask, ReadExecution, Answered, CancelByExecution,
                      DeleteTaskCommit, DeleteTaskFailed, ClientIdle
  <2>5. \A d \in Clients : client'[d].pc # "triggering"
    BY <1>0, <2>4 DEF Polled, TypeOK
  <2>6. QED BY <1>f, <1>r, <1>m, <2>2, <2>3, <2>5
<1>10. ASSUME NEW r \in Runs, RunStep(r) \/ DatabaseError(r)
       PROVE  Polled'
  <2>0. client' = client /\ poll' = poll
    BY <1>10 DEF RunStep, DatabaseError, Elsewhere, Acquire, CreateExecution, PublishId,
         LoadPair, CommitAttempt, Emit, EmitFor, Decide, RefuseDone, CreateRetry, RetryPause,
         Interrupted, CancelExecution, AbortDone, Finished
  <2>1. \A q \in Runs : At(q, Live \cup {"done"})' =>
          At(q, Live \cup {"done"}) /\ run'[q].task = run[q].task
    <3>1. \A p : Goto(r, p) => \A q \in Runs :
            run'[q].task = run[q].task /\ (q # r => run'[q].pc = run[q].pc)
      BY <1>0 DEF Goto, RunState
    <3>2. \A how : Leave(r, how) => \A q \in Runs :
            run'[q].task = run[q].task /\ (q # r => run'[q].pc = run[q].pc)
      <4>1. ASSUME NEW how, Leave(r, how), NEW q \in Runs
            PROVE  run'[q].task = run[q].task /\ (q # r => run'[q].pc = run[q].pc)
        <5>1. q # r => run'[q] = run[q]
          BY <1>0, <4>1 DEF Leave
        <5>2. q = r => Quits(r, how)
          BY <1>0, <4>1, MovesFields
        <5>3. QED BY <5>1, <5>2 DEF Quits, Becomes
      <4>2. QED BY <4>1
    <3>3. \A q \in Runs : run'[q].task = run[q].task /\ (q # r => run'[q].pc = run[q].pc)
      <4>1. CASE PublishId(r)
        <5>1. ASSUME NEW q \in Runs
              PROVE  run'[q].task = run[q].task /\ (q # r => run'[q].pc = run[q].pc)
          <6>1. PICK i, p : run'[q] = [run[q] EXCEPT !.executionId = i, !.pc = p]
                            /\ (q # r => p = run[q].pc)
            BY <4>1 DEF PublishId
          <6>2. run[q] \in RunState
            BY <1>0
          <6>3. QED BY <6>1, <6>2 DEF RunState
        <5>2. QED BY <5>1
      <4>2. CASE LoadPair(r)
        BY <1>0, <3>1, <3>2, <4>2 DEF LoadPair, RunState
      <4>3. CASE CommitAttempt(r)
        BY <1>0, <4>3 DEF CommitAttempt, RunState
      <4>4. CASE Decide(r)
        BY <1>0, <3>2, <4>4 DEF Decide, RunState
      <4>5. CASE CreateRetry(r)
        BY <1>0, <3>2, <4>5 DEF CreateRetry, RunState
      <4>6. CASE Interrupted(r)
        BY <1>0, <3>2, <4>6 DEF Interrupted, RunState
      <4>7. CASE CancelExecution(r)
        BY <1>0, <3>2, <4>7 DEF CancelExecution, RunState
      <4>8. CASE \/ Acquire(r) \/ CreateExecution(r) \/ Emit(r) \/ RefuseDone(r)
                 \/ RetryPause(r) \/ AbortDone(r) \/ DatabaseError(r) \/ Finished(r)
        BY <3>1, <3>2, <4>8 DEF Acquire, CreateExecution, Emit, EmitFor, RefuseDone,
           RetryPause, AbortDone, DatabaseError, Finished
      <4>9. QED BY <1>10, <4>1, <4>2, <4>3, <4>4, <4>5, <4>6, <4>7, <4>8 DEF RunStep
    <3>4. At(r, Live \cup {"done"})' => At(r, Live \cup {"done"})
      <4>1. CASE ~Finished(r)
        BY <1>10, <4>1 DEF RunStep, DatabaseError, Acquire, CreateExecution, PublishId, LoadPair,
           CommitAttempt, Emit, EmitFor, Decide, RefuseDone, CreateRetry, RetryPause, Interrupted,
           CancelExecution, AbortDone, Proceeds, IsLive, At, Live, InCreate, InTry, InHandler
      <4>2. CASE Finished(r)
        BY <4>2 DEF Finished, At
      <4>3. QED BY <4>1, <4>2
    <3>5. QED BY <3>3, <3>4 DEF At
  <2>2. CASE registry' = registry
    BY <1>f, <1>c, <2>0, <2>1, <2>2
  <2>3. CASE Finished(r)
    <3>1. \A t \in Tasks : registry'[t] = IF registry[t] = r THEN 0 ELSE registry[t]
      BY <2>3 DEF Finished
    <3>2. ~At(r, Live \cup {"done"})'
      BY <1>0, <2>3 DEF Finished, Goto, At, RunState, Live, InCreate, InTry, InHandler
    <3>3. \A q \in Runs : At(q, Live \cup {"done"})' =>
            /\ At(q, Live \cup {"done"}) /\ run'[q].task = run[q].task /\ run[q].task \in Tasks
            /\ registry'[run[q].task] = registry[run[q].task]
      BY <1>t, <2>1, <3>1, <3>2 DEF Polled
    <3>4. QED BY <1>0, <1>c, <2>0, <3>1, <3>3, PolledShrinks
  <2>4. registry' = registry \/ Finished(r)
    BY <1>10 DEF RunStep, DatabaseError, Acquire, CreateExecution, PublishId, LoadPair,
       CommitAttempt, Emit, EmitFor, Decide, RefuseDone, CreateRetry, RetryPause,
       Interrupted, CancelExecution, AbortDone
  <2>5. QED BY <2>2, <2>3, <2>4
<1>11. QED BY <1>1, <1>2, <1>3, <1>4, <1>5, <1>6, <1>7, <1>8, <1>9, <1>10
           DEF Next, Stopped, Crash

(* The polling loop alone, with cancels, deletions, shutdowns, crashes and   *)
(* database errors at any moment, never has two runs of a task alive.        *)
THEOREM PollingExcludes ==
  ASSUME "trigger" \notin Ops
  PROVE  Spec => []OneRunPerTask
<1>1. Init => Polled
  BY DEF Init, Polled, ClientIdle, PollIdle, At, Unborn, Live, InCreate, InTry, InHandler
<1>2. IInv /\ IInv' /\ Polled /\ [Next]_vars => Polled'
  BY PolledStep
<1>3. IInv /\ Polled => OneRunPerTask
  BY DEF Polled, OneRunPerTask, IsLive, At
<1>4. QED BY <1>1, <1>2, <1>3, Inductive, PTL DEF Spec

-----------------------------------------------------------------------------
(* The slots.  What the loop excluded and the slots it counted stay within   *)
(* the bound while it awaits the database, because nobody else registers.    *)
Bounded ==
  /\ SlotsRespected
  /\ poll.pc \in {"claiming", "claimed"} =>
       Registered \subseteq poll.excluded /\ Cardinality(poll.excluded) + poll.slots <= MaxConcurrentTasks
  /\ poll.pc = "claimed" => Len(poll.claimed) <= poll.slots

(* Sets of tasks are finite, and a sequence has no more members than places. *)
LEMMA TaskSets ==
  ASSUME NEW S \in SUBSET Tasks
  PROVE  /\ IsFiniteSet(S) /\ Cardinality(S) \in Nat
         /\ \A T \in SUBSET S : Cardinality(T) <= Cardinality(S)
<1>1. IsFiniteSet(S)
  BY ConstantsOK, FS_Subset
<1>2. Cardinality(S) \in Nat
  BY <1>1, FS_CardinalityType
<1>3. \A T \in SUBSET S : Cardinality(T) <= Cardinality(S)
  BY <1>1, FS_Subset
<1>4. QED BY <1>1, <1>2, <1>3

LEMMA Members ==
  ASSUME NEW q \in Seq(Tasks)
  PROVE  LET T == {q[i] : i \in 1..Len(q)}
         IN  T \in SUBSET Tasks /\ Cardinality(T) <= Len(q)
<1> DEFINE T == {q[i] : i \in 1..Len(q)}
           f == [i \in 1..Len(q) |-> q[i]]
<1>1. Len(q) \in Nat /\ T \in SUBSET Tasks
  OBVIOUS
<1>2. f \in Surjection(1..Len(q), T)
  BY DEF Surjection
<1>3. ExistsSurjection(1..Len(q), T)
  BY <1>2 DEF ExistsSurjection
<1>4. QED BY <1>1, <1>3, FS_SurjCardinalityBound

LEMMA Together ==
  ASSUME NEW S \in SUBSET Tasks, NEW T \in SUBSET Tasks
  PROVE  Cardinality(S \cup T) <= Cardinality(S) + Cardinality(T)
<1>1. IsFiniteSet(S) /\ IsFiniteSet(T) /\ Cardinality(S) \in Nat /\ Cardinality(T) \in Nat
  BY TaskSets
<1>2. Cardinality(S \cap T) \in Nat
  <2>1. S \cap T \in SUBSET Tasks
    OBVIOUS
  <2>2. QED BY <2>1, TaskSets
<1>3. Cardinality(S \cup T) = Cardinality(S) + Cardinality(T) - Cardinality(S \cap T)
  BY <1>1, FS_Union, Zenon
<1>4. QED BY <1>1, <1>2, <1>3

(* The registry only loses entries.                                          *)
LEMMA BoundedShrinks ==
  ASSUME TypeOK, TypeOK', Bounded, poll' = poll \/ poll' = PollIdle, Registered' \subseteq Registered
  PROVE  Bounded'
<1>1. Registered \in SUBSET Tasks /\ Cardinality(Registered) \in Nat /\ Cardinality(Registered') \in Nat
      /\ Cardinality(Registered') <= Cardinality(Registered)
  <2>1. Registered \in SUBSET Tasks /\ Registered' \in SUBSET Tasks
    BY DEF Registered
  <2>2. QED BY <2>1, TaskSets
<1>2. SlotsRespected'
  BY <1>1, ConstantsOK DEF Bounded, SlotsRespected
<1>3. QED BY <1>2 DEF Bounded, PollIdle

LEMMA BoundedStep ==
  ASSUME "trigger" \notin Ops, IInv, IInv', Polled, Bounded, [Next]_vars
  PROVE  Bounded'
<1>0. TypeOK /\ TypeOK' /\ poll \in PollState /\ Registered \in SUBSET Tasks
  BY DEF IInv, TypeOK, Registered
<1>1. CASE PollSnapshot
  <2>1. /\ poll'.pc = "claiming" /\ poll'.excluded = Registered /\ Registered' = Registered
        /\ poll'.slots = MaxConcurrentTasks - Cardinality(Registered)
    BY <1>1 DEF PollSnapshot, Registered
  <2>2. Cardinality(Registered) \in Nat
    BY <1>0, TaskSets
  <2>3. SlotsRespected'
    BY <2>1 DEF Bounded, SlotsRespected
  <2>4. QED BY <2>1, <2>2, <2>3, ConstantsOK DEF Bounded
<1>2. CASE PollClaim
  <2> DEFINE eligible == due \ poll.excluded
             n == MinOf(MinOf(poll.slots, Cardinality(eligible)), MaxRuns - spawned)
  <2>1. PICK q \in Orders(eligible, n) :
          poll' = IF n = 0 THEN PollIdle ELSE [poll EXCEPT !.pc = "claimed", !.claimed = q]
    BY <1>2 DEF PollClaim
  <2>2. Registered' = Registered /\ poll.pc = "claiming"
    BY <1>2 DEF PollClaim, Registered
  <2>3. CASE poll' = PollIdle
    BY <1>0, <2>2, <2>3, BoundedShrinks
  <2>4. CASE poll' = [poll EXCEPT !.pc = "claimed", !.claimed = q]
    <3>1. poll'.pc = "claimed" /\ poll'.claimed = q /\ poll'.slots = poll.slots
          /\ poll'.excluded = poll.excluded
      BY <1>0, <2>4 DEF PollState
    <3>2. n \in Int /\ n <= poll.slots /\ poll.slots \in Nat /\ n \in Nat
      <4>1. Cardinality(eligible) \in Nat
        BY <1>0, TaskSets DEF TypeOK
      <4>2. poll.slots \in Nat
        BY <1>0, ConstantsOK DEF PollState
      <4>3. MaxRuns - spawned \in Nat
        BY <1>0, ConstantsOK DEF TypeOK
      <4>4. QED BY <4>1, <4>2, <4>3 DEF MinOf
    <3>3. q \in [1..n -> eligible]
      BY <2>1 DEF Orders
    <3>4. Len(q) = n
      <4>1. q \in Seq(Tasks)
        BY <1>0, <3>1 DEF TypeOK, PollState
      <4>2. DOMAIN q = 1..Len(q) /\ Len(q) \in Nat /\ DOMAIN q = 1..n
        BY <3>3, <4>1
      <4>3. QED BY <3>2, <4>2
    <3>5. SlotsRespected'
      BY <2>2 DEF Bounded, SlotsRespected
    <3>6. QED BY <2>2, <3>1, <3>2, <3>4, <3>5 DEF Bounded
  <2>5. QED BY <2>1, <2>3, <2>4
<1>3. CASE PollSpawn
  <2> DEFINE q == poll.claimed
             T == {q[i] : i \in 1..Len(q)}
  <2>1. q \in Seq(Tasks) /\ Len(q) \in Nat /\ DOMAIN q = 1..Len(q)
    BY <1>0 DEF PollState
  <2>2. /\ poll' = PollIdle /\ poll.pc = "claimed"
        /\ registry' = [t \in Tasks |-> IF \E i \in DOMAIN q : q[i] = t
                                        THEN spawned + (CHOOSE i \in DOMAIN q : q[i] = t)
                                        ELSE registry[t]]
    BY <1>3 DEF PollSpawn, Spawn
  <2>3. Registered' \subseteq Registered \cup T
    BY <2>1, <2>2 DEF Registered
  <2>4. T \in SUBSET Tasks /\ Cardinality(T) <= Len(q)
    BY <2>1, Members
  <2>5. /\ Registered \in SUBSET poll.excluded /\ poll.excluded \in SUBSET Tasks
        /\ Cardinality(poll.excluded) + poll.slots <= MaxConcurrentTasks /\ Len(q) <= poll.slots
        /\ poll.slots \in Nat
    BY <1>0, <2>2, ConstantsOK DEF Bounded, PollState
  <2> HIDE DEF T
  <2>6. Registered' \in SUBSET (Registered \cup T) /\ Registered \cup T \in SUBSET Tasks
    BY <1>0, <2>3, <2>4
  <2>7. /\ Cardinality(Registered') <= Cardinality(Registered \cup T)
        /\ Cardinality(Registered \cup T) <= Cardinality(Registered) + Cardinality(T)
        /\ Cardinality(Registered) <= Cardinality(poll.excluded)
        /\ Cardinality(Registered') \in Nat /\ Cardinality(Registered \cup T) \in Nat
        /\ Cardinality(Registered) \in Nat /\ Cardinality(T) \in Nat
        /\ Cardinality(poll.excluded) \in Nat
    <3>1. Registered' \in SUBSET Tasks
      BY <2>6
    <3>2. QED BY <1>0, <2>4, <2>5, <2>6, <3>1, TaskSets, Together
  <2>8. SlotsRespected'
    BY <2>1, <2>4, <2>5, <2>7, ConstantsOK DEF SlotsRespected
  <2>9. QED BY <2>2, <2>8 DEF Bounded, PollIdle
<1>4. CASE ~PollSnapshot /\ ~PollClaim /\ ~PollSpawn
  <2>1. \A c \in Clients : ~ExecuteTaskNow(c)
    BY DEF ExecuteTaskNow, Polled
  <2>2. poll' = poll \/ poll' = PollIdle
    <3>1. ASSUME NEW c \in Clients, ClientStep(c)
          PROVE  poll' = poll
      BY <2>1, <3>1 DEF ClientStep, DeleteTask, ReadExecution, Answered, CancelByExecution,
                        DeleteTaskCommit, DeleteTaskFailed, Trigger
    <3>2. ASSUME NEW r \in Runs, RunStep(r) \/ DatabaseError(r)
          PROVE  poll' = poll
      BY <3>2 DEF RunStep, DatabaseError, Elsewhere, Acquire, CreateExecution, PublishId,
         LoadPair, CommitAttempt, Emit, EmitFor, Decide, RefuseDone, CreateRetry, RetryPause,
         Interrupted, CancelExecution, AbortDone, Finished
    <3>3. QED BY <1>4, <3>1, <3>2 DEF Next, vars, Start, Stop, Stopped, Crash, Vanish, Tick, CancelTask,
                 DeleteExecution, PollError
  <2>3. registry' = registry \/ \A t \in Tasks : registry'[t] \in {0, registry[t]}
    <3>1. ASSUME NEW c \in Clients, ClientStep(c)
          PROVE  registry' = registry
      BY <2>1, <3>1 DEF ClientStep, DeleteTask, ReadExecution, Answered, CancelByExecution,
                        DeleteTaskCommit, DeleteTaskFailed, Trigger
    <3>2. ASSUME NEW r \in Runs, RunStep(r) \/ DatabaseError(r)
          PROVE  registry' = registry \/ \A t \in Tasks : registry'[t] \in {0, registry[t]}
      BY <3>2 DEF RunStep, DatabaseError, Acquire, CreateExecution, PublishId, LoadPair,
         CommitAttempt, Emit, EmitFor, Decide, RefuseDone, CreateRetry, RetryPause,
         Interrupted, CancelExecution, AbortDone, Finished
    <3>3. QED BY <1>4, <3>1, <3>2 DEF Next, vars, Start, Stop, Stopped, Crash, Vanish, Tick, CancelTask,
                 DeleteExecution, PollError
  <2>4. Registered' \subseteq Registered
    BY <2>3 DEF Registered
  <2>5. QED BY <1>0, <2>2, <2>4, BoundedShrinks
<1>5. QED BY <1>1, <1>2, <1>3, <1>4

(* The polling loop alone never registers more runs than it may, although it *)
(* counts the free slots before it awaits the database.                      *)
THEOREM PollingBounded ==
  ASSUME "trigger" \notin Ops
  PROVE  Spec => []SlotsRespected
<1>1. Init => Polled /\ Bounded
  <2> SUFFICES ASSUME Init
               PROVE  Polled /\ Bounded
    OBVIOUS
  <2>1. Polled
    BY DEF Init, Polled, ClientIdle, PollIdle, At, Unborn, Live, InCreate, InTry, InHandler
  <2>2. Registered = {}
    BY DEF Init, Registered
  <2>3. Cardinality(Registered) <= MaxConcurrentTasks
    BY <2>2, FS_EmptySet, ConstantsOK
  <2>4. QED BY <2>1, <2>3 DEF Init, Bounded, SlotsRespected, PollIdle
<1>2. IInv /\ IInv' /\ Polled /\ Bounded /\ [Next]_vars => (Polled /\ Bounded)'
  BY PolledStep, BoundedStep
<1>3. Bounded => SlotsRespected
  BY DEF Bounded
<1>4. QED BY <1>1, <1>2, <1>3, Inductive, PTL DEF Spec

=============================================================================
