------------------------------ MODULE LogStream ------------------------------
(***************************************************************************)
(* The in-memory log history of executions and the SSE streams that follow *)
(* it.  Everything runs on one event loop: publishing an entry, trimming   *)
(* the table of histories and filling the queues of the subscribers is one *)
(* step, while an SSE generator is suspended at every frame it yields.     *)
(* The text of an entry is left out: an entry is its sequence number.      *)
(***************************************************************************)
EXTENDS Naturals, Sequences, FiniteSets

CONSTANTS
  Executions,     \* execution ids
  Readers,        \* SSE requests, each of which streams once
  HistorySize,    \* history_size: entries retained per execution
  MaxExecutions,  \* max_executions: histories retained
  QueueSize,      \* queue_size: frames queued per subscriber
  MaxEvents       \* bound: entries and terminal frames published in a behaviour

ASSUME LimitsOK == /\ {HistorySize, MaxExecutions, QueueSize} \subseteq Nat \ {0}
                   /\ MaxEvents \in Nat
ASSUME SomeExecution == Executions # {}

VARIABLES
  order,          \* keys of _logs, least recently used first
  entries,        \* ids of the retained entries of an execution
  terminal,       \* retained terminal frame, or NoFrame
  subscribers,    \* readers whose queue is registered with the execution
  sequence,       \* _sequence
  published,      \* every id ever published for an execution
  ended,          \* handle_terminal was called for the execution
  reader          \* the SSE generators

logs == <<order, entries, terminal>>
vars == <<logs, subscribers, sequence, published, ended, reader>>

-----------------------------------------------------------------------------
Frame(id, event) == [id |-> id, event |-> event]
NoFrame  == Frame(0, "none")
Endings  == {"completed", "failed"}         \* events of terminal frames
Closing  == Endings \cup {"overflow"}       \* an overflow is sent as event "failed"
Active   == {"replaying", "following", "ending"}

Retained    == {order[i] : i \in 1..Len(order)}
Kicked(r)   == reader[r].pc \in {"replaying", "following"}
                 /\ r \notin subscribers[reader[r].execution]

Unopened == [pc |-> "unopened", execution |-> CHOOSE e \in Executions : TRUE,
             replay |-> <<>>, lastId |-> 0, queue |-> <<>>, sent |-> <<>>, since |-> 0]

Init ==
  /\ order = <<>>
  /\ entries = [e \in Executions |-> <<>>]
  /\ terminal = [e \in Executions |-> NoFrame]
  /\ subscribers = [e \in Executions |-> {}]
  /\ sequence = 0
  /\ published = [e \in Executions |-> {}]
  /\ ended = [e \in Executions |-> FALSE]
  /\ reader = [r \in Readers |-> Unopened]

-----------------------------------------------------------------------------
(* The table of histories.                                                 *)

(* The elements of q that are not in S, in order. *)
Without(q, S) ==
  LET kept[i \in 0..Len(q)] == IF i = 0 THEN <<>>
                               ELSE IF q[i] \in S THEN kept[i - 1] ELSE Append(kept[i - 1], q[i])
  IN  kept[Len(q)]

MoveToEnd(q, e) == Append(Without(q, {e}), e)

\* Mutant of Evicted: subscribed histories are evicted like the others.
EvictedRegardless(q, subs) ==
  {q[i] : i \in {k \in 1..(Len(q) - 1) : k + MaxExecutions <= Len(q)}}

(* _trim evicts from the oldest on, never the newest, never a subscribed   *)
(* one, and stops as soon as the table fits.                               *)
Evicted(q, subs) ==
  LET idle == {i \in 1..(Len(q) - 1) : subs[q[i]] = {}}
  IN  {q[i] : i \in {k \in idle : Cardinality({j \in idle : j < k}) + MaxExecutions < Len(q)}}

(* The table becomes q, trimmed; h and t are its histories and terminals.  *)
Trimmed(q, h, t, subs) ==
  LET gone == Evicted(q, subs)
  IN  /\ order' = Without(q, gone)
      /\ entries' = [e \in Executions |-> IF e \in gone THEN <<>> ELSE h[e]]
      /\ terminal' = [e \in Executions |-> IF e \in gone THEN NoFrame ELSE t[e]]

(* _get alone: create or refresh the history of e.                         *)
Get(e) == Trimmed(MoveToEnd(order, e), entries, terminal, subscribers)

\* Mutant of Push: a full history refuses the new entry.
PushIfRoom(q, id) == IF Len(q) < HistorySize THEN Append(q, id) ELSE q

(* deque(maxlen=history_size).append *)
Push(q, id) == LET longer == Append(q, id)
               IN  IF Len(longer) > HistorySize THEN Tail(longer) ELSE longer

\* Mutant of Enqueue: a full queue grows.
EnqueueBeyond(r, f) == [reader[r] EXCEPT !.queue = Append(@, f)]

(* A queue that is full is emptied and holds the overflow frame instead.   *)
Enqueue(r, f) ==
  [reader[r] EXCEPT !.queue = IF Len(@) = QueueSize THEN <<Frame(f.id, "overflow")>>
                              ELSE Append(@, f)]

\* Mutant of Broadcast: a full queue loses the frame, its reader stays.
BroadcastDropsFrame(e, f) ==
  /\ reader' = [r \in Readers |->
                  IF r \in subscribers[e] /\ Len(reader[r].queue) < QueueSize
                  THEN Enqueue(r, f) ELSE reader[r]]
  /\ UNCHANGED subscribers

(* A reader whose queue overflows is kicked. *)
Broadcast(e, f) ==
  LET slow == {r \in subscribers[e] : Len(reader[r].queue) = QueueSize}
  IN  /\ reader' = [r \in Readers |-> IF r \in subscribers[e] THEN Enqueue(r, f) ELSE reader[r]]
      /\ subscribers' = [subscribers EXCEPT ![e] = @ \ slow]

Announce(e, f) ==
  /\ sequence' = f.id
  /\ published' = [published EXCEPT ![e] = @ \cup {f.id}]
  /\ Broadcast(e, f)

-----------------------------------------------------------------------------
(* What the executor and the REST API do.                                  *)

Publish(e) ==
  /\ ~ended[e] /\ sequence < MaxEvents
  /\ Trimmed(MoveToEnd(order, e), [entries EXCEPT ![e] = Push(@, sequence + 1)],
             terminal, subscribers)
  /\ Announce(e, Frame(sequence + 1, "log"))
  /\ UNCHANGED ended

HandleTerminal(e) ==
  /\ ~ended[e] /\ sequence < MaxEvents
  /\ \E event \in Endings :
       LET f == Frame(sequence + 1, event)
       IN  /\ Trimmed(MoveToEnd(order, e), entries, [terminal EXCEPT ![e] = f], subscribers)
           /\ Announce(e, f)
  /\ ended' = [ended EXCEPT ![e] = TRUE]

(* GET /logs, and collect when an attempt is finalized: a read that        *)
(* refreshes, or creates, the history of any id it is asked about.         *)
Read(e) ==
  /\ Get(e)
  /\ UNCHANGED <<subscribers, sequence, published, ended, reader>>

-----------------------------------------------------------------------------
(* The SSE generator.                                                      *)

\* Mutant of Open: the history is read when the queue is not registered yet.
OpenWithoutQueue(r, e) ==
  /\ reader[r].pc = "unopened"
  /\ Get(e)
  /\ reader' = [reader EXCEPT ![r] = [Unopened EXCEPT !.pc = "replaying", !.execution = e,
                                                      !.replay = entries[e], !.since = sequence]]
  /\ UNCHANGED <<subscribers, sequence, published, ended>>

(* Subscribe, then read the history, with no suspension in between.        *)
Open(r, e) ==
  /\ reader[r].pc = "unopened"
  /\ Get(e)
  /\ subscribers' = [subscribers EXCEPT ![e] = @ \cup {r}]
  /\ reader' = [reader EXCEPT ![r] = [Unopened EXCEPT !.pc = "replaying", !.execution = e,
                                                      !.replay = entries[e], !.since = sequence]]
  /\ UNCHANGED <<sequence, published, ended>>

ReaderOnly == UNCHANGED <<subscribers, sequence, published, ended>>

Sending(r, f) == [reader[r] EXCEPT !.sent = Append(@, f),
                                   !.lastId = IF f.id > @ THEN f.id ELSE @]

Replay(r) ==
  /\ reader[r].pc = "replaying" /\ reader[r].replay # <<>>
  /\ reader' = [reader EXCEPT ![r] =
                  [Sending(r, Frame(Head(reader[r].replay), "log")) EXCEPT !.replay = Tail(@)]]
  /\ UNCHANGED logs /\ ReaderOnly

\* Mutant of ReplayDone: the terminal frame is sent, but the stream goes on.
ReplayDoneKeepsFollowing(r) ==
  /\ reader[r].pc = "replaying" /\ reader[r].replay = <<>>
  /\ Get(reader[r].execution)
  /\ LET f == terminal[reader[r].execution]
     IN  reader' = [reader EXCEPT ![r] = IF f = NoFrame THEN [@ EXCEPT !.pc = "following"]
                                         ELSE [Sending(r, f) EXCEPT !.pc = "following"]]
  /\ ReaderOnly

(* The history has been replayed: the terminal frame, if there is one, ends *)
(* the stream; otherwise the queue is followed.                             *)
ReplayDone(r) ==
  /\ reader[r].pc = "replaying" /\ reader[r].replay = <<>>
  /\ Get(reader[r].execution)
  /\ LET f == terminal[reader[r].execution]
     IN  reader' = [reader EXCEPT ![r] = IF f = NoFrame THEN [@ EXCEPT !.pc = "following"]
                                         ELSE [Sending(r, f) EXCEPT !.pc = "ending"]]
  /\ ReaderOnly

Stale(r, f) == f.id <= reader[r].lastId /\ f.event \notin {"failed", "overflow"}

\* Mutant of Follow: only a completed execution ends the stream.
FollowUntilCompleted(r) ==
  /\ reader[r].pc = "following" /\ reader[r].queue # <<>>
  /\ LET f == Head(reader[r].queue)
         moved == IF Stale(r, f) THEN reader[r]
                  ELSE [Sending(r, f) EXCEPT !.pc = IF f.event = "completed" THEN "ending" ELSE @]
     IN  reader' = [reader EXCEPT ![r] = [moved EXCEPT !.queue = Tail(@)]]
  /\ UNCHANGED logs /\ ReaderOnly

Follow(r) ==
  /\ reader[r].pc = "following" /\ reader[r].queue # <<>>
  /\ LET f == Head(reader[r].queue)
         moved == IF Stale(r, f) THEN reader[r]
                  ELSE [Sending(r, f) EXCEPT !.pc = IF f.event \in Closing THEN "ending" ELSE @]
     IN  reader' = [reader EXCEPT ![r] = [moved EXCEPT !.queue = Tail(@)]]
  /\ UNCHANGED logs /\ ReaderOnly

\* Mutant of Close: the table is not trimmed when a stream ends.
CloseWithoutTrim(r) ==
  /\ reader[r].pc = "ending"
  /\ subscribers' = [e \in Executions |-> subscribers[e] \ {r}]
  /\ reader' = [reader EXCEPT ![r].pc = "closed"]
  /\ UNCHANGED <<logs, sequence, published, ended>>

(* The generator returns: its queue is discarded and the table trimmed.    *)
Leave(r) ==
  /\ subscribers' = [e \in Executions |-> subscribers[e] \ {r}]
  /\ Trimmed(order, entries, terminal, subscribers')
  /\ reader' = [reader EXCEPT ![r].pc = "closed", ![r].replay = <<>>, ![r].queue = <<>>]
  /\ UNCHANGED <<sequence, published, ended>>

Close(r)      == reader[r].pc = "ending" /\ Leave(r)
Disconnect(r) == reader[r].pc \in Active /\ Leave(r)

-----------------------------------------------------------------------------
ReaderStep(r) == Replay(r) \/ ReplayDone(r) \/ Follow(r) \/ Close(r)

Next ==
  \/ \E e \in Executions : Publish(e) \/ HandleTerminal(e) \/ Read(e)
  \/ \E r \in Readers, e \in Executions : Open(r, e)
  \/ \E r \in Readers : ReaderStep(r) \/ Disconnect(r)

Spec == Init /\ [][Next]_vars

(* A client that stays connected takes the frames it is sent, at whatever  *)
(* pace, and the event loop resumes its generator.                         *)
FairSpec == Spec /\ \A r \in Readers : WF_vars(ReaderStep(r))

-----------------------------------------------------------------------------
Ids       == 0..MaxEvents
FrameType == [id : Ids, event : {"none", "log"} \cup Closing]

(* Type invariant: histories and queues never exceed their sizes.          *)
TypeOK ==
  /\ order \in Seq(Executions)
  /\ \A i, j \in 1..Len(order) : order[i] = order[j] => i = j
  /\ entries \in [Executions -> Seq(Ids)]
  /\ \A e \in Executions : Len(entries[e]) <= HistorySize
  /\ terminal \in [Executions -> FrameType]
  /\ subscribers \in [Executions -> SUBSET Readers]
  /\ sequence \in Ids
  /\ published \in [Executions -> SUBSET Ids]
  /\ ended \in [Executions -> BOOLEAN]
  /\ \A r \in Readers :
       /\ reader[r].pc \in Active \cup {"unopened", "closed"}
       /\ reader[r].execution \in Executions
       /\ reader[r].replay \in Seq(Ids) /\ reader[r].lastId \in Ids
       /\ reader[r].queue \in Seq(FrameType) /\ Len(reader[r].queue) <= QueueSize
       /\ reader[r].sent \in Seq(FrameType) /\ reader[r].since \in Ids

(* A retained history has no hole: it holds the latest entries of its      *)
(* execution, however it was evicted and created again (log_stream.py:57). *)
LogIds(e) == published[e] \ {terminal[e].id}
HistoryUnbroken ==
  \A e \in Executions, i \in Ids :
    /\ i \in 1..Len(entries[e]) => entries[e][i] \in published[e]
    /\ i \in 2..Len(entries[e]) => entries[e][i - 1] < entries[e][i]
    /\ i \in LogIds(e) /\ entries[e] # <<>> /\ i > entries[e][1] =>
         \E j \in 1..Len(entries[e]) : entries[e][j] = i

(* The frames of a stream have strictly increasing ids, so none is sent    *)
(* twice, whether it came from the history or the queue (execution.py:91). *)
FramesOrdered ==
  \A r \in Readers : \A i, j \in 1..Len(reader[r].sent) :
    i < j => reader[r].sent[i].id < reader[r].sent[j].id

(* What was published since the stream was opened has been sent or is in   *)
(* the queue, while the queue is registered (log_stream.py:132).           *)
SentIds(r)   == {reader[r].sent[i].id : i \in 1..Len(reader[r].sent)}
QueuedIds(r) == {reader[r].queue[i].id : i \in 1..Len(reader[r].queue)}
Since(r)     == {id \in published[reader[r].execution] : id > reader[r].since}
NothingMissed ==
  \A r \in Readers :
    /\ reader[r].pc \in {"replaying", "following"}
    /\ ~Kicked(r)
    => Since(r) \subseteq SentIds(r) \cup QueuedIds(r)

(* A reader that is no longer registered while its stream is open finds    *)
(* the overflow frame, and nothing else, in its queue (log_stream.py:95).  *)
KickedReadersAreTold ==
  \A r \in Readers : Kicked(r) =>
    Len(reader[r].queue) = 1 /\ reader[r].queue[1].event = "overflow"

(* A history that somebody follows is not evicted (log_stream.py:66).      *)
LiveHistoriesRetained ==
  \A e \in Executions : subscribers[e] # {} => e \in Retained

(* The table exceeds its capacity only by histories that are followed, the *)
(* newest, or those a kicked reader is about to trim (log_stream.py:66).   *)
CapacityRespected ==
  Len(order) > MaxExecutions =>
    \/ \A i \in 1..(Len(order) - 1) : subscribers[order[i]] # {}
    \/ \E r \in Readers : reader[r].pc \in Active /\ r \notin subscribers[reader[r].execution]

(* A stream that is open when its execution ends, ends too (README, "终态帧 *)
(* 后自动结束"): by the terminal frame, or because it was kicked.          *)
StreamEnds ==
  \A r \in Readers :
    reader[r].pc \in Active /\ ended[reader[r].execution] /\ Since(r) # {}
      ~> reader[r].pc = "closed"

(* A stream that was ended by a terminal frame has sent everything that    *)
(* was published since it was opened: subscribe first, replay history,     *)
(* then follow (execution.py:92).                                          *)
NothingSkipped ==
  \A r \in Readers :
    (\E i \in 1..Len(reader[r].sent) : reader[r].sent[i].event \in Endings)
      => Since(r) \subseteq SentIds(r)
=============================================================================
