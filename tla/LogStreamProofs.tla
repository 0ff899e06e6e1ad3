---------------------------- MODULE LogStreamProofs ----------------------------
(* Theorems about LogStream, for every value of its constants.             *)
EXTENDS LogStream, TLAPS

(***************************************************************************)
(* Sequences.                                                              *)
(***************************************************************************)
LEMMA Appended ==
  ASSUME NEW S, NEW q \in Seq(S), NEW x \in S
  PROVE  /\ Append(q, x) \in Seq(S) /\ Len(q) \in Nat /\ Len(Append(q, x)) = Len(q) + 1
         /\ \A i \in 1..Len(q) : Append(q, x)[i] = q[i]
         /\ Append(q, x)[Len(q) + 1] = x
OBVIOUS

LEMMA Dropped ==
  ASSUME NEW S, NEW q \in Seq(S), q # <<>>
  PROVE  /\ Tail(q) \in Seq(S) /\ Len(q) \in Nat /\ Len(q) > 0 /\ Len(Tail(q)) = Len(q) - 1
         /\ \A i \in 1..Len(Tail(q)) : i + 1 \in 1..Len(q) /\ Tail(q)[i] = q[i + 1]
         /\ Head(q) = q[1] /\ Head(q) \in S
OBVIOUS

LEMMA Single ==
  ASSUME NEW S, NEW x \in S
  PROVE  <<x>> \in Seq(S) /\ Len(<<x>>) = 1 /\ <<x>>[1] = x
OBVIOUS

LEMMA Nothing ==
  ASSUME NEW S
  PROVE  <<>> \in Seq(S) /\ Len(<<>>) = 0
OBVIOUS

(***************************************************************************)
(* What the readers and the histories are made of.                         *)
(***************************************************************************)
Events   == {"none", "log", "completed", "failed", "overflow"}
AnyFrame == [id : Nat, event : Events]
Stream   == [pc : Active \cup {"unopened", "closed"},
             execution : Executions \cup {Unopened.execution},
             replay : Seq(Nat), lastId : Nat, queue : Seq(AnyFrame), sent : Seq(AnyFrame),
             since : Nat]

StateTypes ==
  /\ entries \in [Executions -> Seq(Nat)] /\ terminal \in [Executions -> AnyFrame]
  /\ subscribers \in [Executions -> SUBSET Readers] /\ sequence \in Nat
  /\ published \in [Executions -> SUBSET Nat] /\ ended \in [Executions -> BOOLEAN]
  /\ reader \in [Readers -> Stream]
  /\ \A r \in Readers : reader[r].pc # "unopened" => reader[r].execution \in Executions

(* The ids of a stream x grow from what it has sent over what it replays   *)
(* to what it has queued, when last is the latest id given out and t the   *)
(* terminal frame of its execution.                                        *)
Listening(x) == x.pc \in {"replaying", "following"}

SentInOrder(x) == \A i, j \in 1..Len(x.sent) : i < j => x.sent[i].id < x.sent[j].id

QueueAhead(x, last) ==
  /\ x.lastId <= last /\ x.since <= last
  /\ \A i \in 1..Len(x.sent) : x.sent[i].id <= x.lastId
  /\ \A i, j \in 1..Len(x.queue) : i < j => x.queue[i].id < x.queue[j].id
  /\ \A i \in 1..Len(x.queue) :
       x.lastId < x.queue[i].id /\ x.since < x.queue[i].id /\ x.queue[i].id <= last

ReplayAhead(x, t) ==
  /\ x.lastId <= x.since
  /\ \A i, j \in 1..Len(x.replay) : i < j => x.replay[i] < x.replay[j]
  /\ \A i \in 1..Len(x.replay) : x.lastId < x.replay[i] /\ x.replay[i] <= x.since
  /\ t # NoFrame => x.lastId < t.id /\ \A i \in 1..Len(x.replay) : x.replay[i] < t.id

StreamInv(x, last, t) ==
  /\ SentInOrder(x)
  /\ Listening(x) => QueueAhead(x, last)
  /\ x.pc = "replaying" => ReplayAhead(x, t)

(* A history h of the published ids P with terminal frame t.               *)
HistoryInv(h, P, t, over, last) ==
  /\ \A id \in P : 0 < id /\ id <= last
  /\ \A i \in 1..Len(h) : h[i] \in P
  /\ \A i, j \in 1..Len(h) : i < j => h[i] < h[j]
  /\ \A id \in P \ {t.id} : h # <<>> /\ id > h[1] => \E j \in 1..Len(h) : h[j] = id
  /\ t # NoFrame => over /\ 0 < t.id /\ t.id <= last /\ \A i \in 1..Len(h) : h[i] < t.id
  /\ over /\ t = NoFrame => h = <<>>

(* Who is registered follows the execution it is registered with.          *)
Registered == \A e \in Executions : \A r \in subscribers[e] :
                 reader[r].execution = e /\ reader[r].pc \in Active

(* While a stream x is registered, what was published (P) since it was     *)
(* opened is sent or queued; when it is not, its queue tells it so.        *)
TellInv(x, registered, P) == Listening(x) =>
  IF registered
  THEN \A id \in P : id > x.since => \/ \E i \in 1..Len(x.sent) : x.sent[i].id = id
                                     \/ \E i \in 1..Len(x.queue) : x.queue[i].id = id
  ELSE Len(x.queue) = 1 /\ x.queue[1].event = "overflow"

Of(r) == reader[r].execution

Histories ==
  \A e \in Executions : HistoryInv(entries[e], published[e], terminal[e], ended[e], sequence)
Streams == \A r \in Readers : StreamInv(reader[r], sequence, terminal[Of(r)])
Tellings == \A r \in Readers : TellInv(reader[r], r \in subscribers[Of(r)], published[Of(r)])

Inv == StateTypes /\ Registered /\ Histories /\ Streams /\ Tellings

LEMMA FrameFields ==
  ASSUME NEW id \in Nat, NEW event \in Events
  PROVE  Frame(id, event) \in AnyFrame /\ Frame(id, event).id = id /\ Frame(id, event).event = event
BY DEF Frame, AnyFrame

(* The frames of a sequence have ids.                                      *)
LEMMA FrameIds ==
  ASSUME NEW q \in Seq(AnyFrame)
  PROVE  Len(q) \in Nat /\ \A i \in 1..Len(q) : q[i].id \in Nat
<1>1. Len(q) \in Nat /\ \A i \in 1..Len(q) : q[i] \in AnyFrame
  OBVIOUS
<1>2. \A f \in AnyFrame : f.id \in Nat
  BY DEF AnyFrame
<1>3. QED BY <1>1, <1>2

LEMMA NoFrameFields == NoFrame \in AnyFrame /\ NoFrame.id = 0
BY FrameFields DEF NoFrame, Events

(***************************************************************************)
(* One stream.                                                             *)
(***************************************************************************)

(* It stays in order when a later id is given out, and its history is      *)
(* evicted or its execution ends with that id.                             *)
LEMMA StreamWaits ==
  ASSUME NEW x \in Stream, NEW last \in Nat, NEW t, StreamInv(x, last, t),
         NEW later \in Nat, later >= last,
         NEW u \in AnyFrame, u = t \/ u = NoFrame \/ (u.id = later /\ later > last)
  PROVE  StreamInv(x, later, u)
<1>1. /\ x.lastId \in Nat /\ x.since \in Nat /\ x.queue \in Seq(AnyFrame) /\ x.replay \in Seq(Nat)
      /\ Len(x.queue) \in Nat /\ Len(x.replay) \in Nat
  BY DEF Stream
<1>2. /\ \A i \in 1..Len(x.queue) : x.queue[i].id \in Nat
      /\ \A i \in 1..Len(x.replay) : x.replay[i] \in Nat
  BY <1>1, FrameIds
<1>3. Listening(x) => QueueAhead(x, later)
  BY <1>1, <1>2 DEF StreamInv, QueueAhead
<1>4. ASSUME x.pc = "replaying"
      PROVE  ReplayAhead(x, u)
  <2>1. QueueAhead(x, last) /\ ReplayAhead(x, t)
    BY <1>4 DEF StreamInv, Listening
  <2>2. ASSUME u # NoFrame
        PROVE  x.lastId < u.id /\ \A i \in 1..Len(x.replay) : x.replay[i] < u.id
    <3>1. CASE u = t
      BY <2>1, <2>2, <3>1 DEF ReplayAhead
    <3>2. CASE u.id = later /\ later > last
      BY <1>1, <1>2, <2>1, <3>2 DEF ReplayAhead, QueueAhead
    <3>3. QED BY <2>2, <3>1, <3>2
  <2>3. QED BY <2>1, <2>2 DEF ReplayAhead
<1>5. QED BY <1>3, <1>4 DEF StreamInv

(* The frame of the next id is queued, or the overflow takes its place.    *)
Queued(x, f) == [x EXCEPT !.queue = IF Len(@) = QueueSize THEN <<Frame(f.id, "overflow")>>
                                    ELSE Append(@, f)]

LEMMA QueuedFields ==
  ASSUME NEW x \in Stream, NEW f \in AnyFrame
  PROVE  /\ Queued(x, f) \in Stream
         /\ Queued(x, f).pc = x.pc /\ Queued(x, f).execution = x.execution
         /\ Queued(x, f).replay = x.replay /\ Queued(x, f).lastId = x.lastId
         /\ Queued(x, f).sent = x.sent /\ Queued(x, f).since = x.since
         /\ Queued(x, f).queue = IF Len(x.queue) = QueueSize THEN <<Frame(f.id, "overflow")>>
                                 ELSE Append(x.queue, f)
<1> DEFINE q == IF Len(x.queue) = QueueSize THEN <<Frame(f.id, "overflow")>> ELSE Append(x.queue, f)
<1>1. Queued(x, f) = [x EXCEPT !.queue = q]
  BY DEF Queued
<1>2. q \in Seq(AnyFrame)
  <2>1. Frame(f.id, "overflow") \in AnyFrame
    BY FrameFields DEF AnyFrame, Events
  <2>2. x.queue \in Seq(AnyFrame)
    BY DEF Stream
  <2>3. <<Frame(f.id, "overflow")>> \in Seq(AnyFrame)
    BY <2>1, Single
  <2>4. Append(x.queue, f) \in Seq(AnyFrame)
    BY <2>2, Appended
  <2>5. QED BY <2>3, <2>4
<1> HIDE DEF q
<1>3. QED BY <1>1, <1>2 DEF Stream, q

LEMMA StreamQueues ==
  ASSUME NEW x \in Stream, NEW last \in Nat, NEW t, StreamInv(x, last, t),
         NEW f \in AnyFrame, f.id = last + 1,
         NEW u \in AnyFrame, u = t \/ u = NoFrame \/ u.id = last + 1
  PROVE  StreamInv(Queued(x, f), last + 1, u)
<1> DEFINE y == Queued(x, f)
<1>1. /\ y.pc = x.pc /\ y.replay = x.replay /\ y.lastId = x.lastId /\ y.sent = x.sent /\ y.since = x.since
      /\ y.queue = IF Len(x.queue) = QueueSize THEN <<Frame(f.id, "overflow")>> ELSE Append(x.queue, f)
  BY QueuedFields
<1> HIDE DEF y
<1>2. StreamInv(x, last + 1, u)
  BY StreamWaits
<1>3. SentInOrder(y) /\ (y.pc = "replaying" => ReplayAhead(y, u))
  BY <1>1, <1>2 DEF StreamInv, SentInOrder, ReplayAhead
<1>4. ASSUME Listening(y)
      PROVE  QueueAhead(y, last + 1)
  <2>1. QueueAhead(x, last)
    BY <1>1, <1>4 DEF StreamInv, Listening
  <2>2. x.queue \in Seq(AnyFrame) /\ x.lastId \in Nat /\ x.since \in Nat /\ Len(x.queue) \in Nat
    BY DEF Stream
  <2>3. \A i \in 1..Len(x.queue) : x.queue[i].id \in Nat
    BY <2>2, FrameIds
  <2>4. CASE Len(x.queue) = QueueSize
    <3>1. y.queue = <<Frame(f.id, "overflow")>> /\ Frame(f.id, "overflow").id = last + 1
      BY <1>1, <2>4, FrameFields DEF Events
    <3>2. Len(y.queue) = 1 /\ \A i \in 1..Len(y.queue) : y.queue[i].id = last + 1
      BY <3>1
    <3>3. QED BY <1>1, <2>1, <2>2, <3>2 DEF QueueAhead
  <2>5. CASE Len(x.queue) # QueueSize
    <3>1. /\ Len(y.queue) = Len(x.queue) + 1
          /\ \A i \in 1..Len(x.queue) : y.queue[i] = x.queue[i]
          /\ y.queue[Len(x.queue) + 1] = f
      BY <1>1, <2>2, <2>5, Appended
    <3>2. \A i \in 1..Len(y.queue) :
             \/ i \in 1..Len(x.queue) /\ y.queue[i] = x.queue[i]
             \/ i = Len(x.queue) + 1 /\ y.queue[i] = f
      BY <2>2, <3>1
    <3>3. \A i, j \in 1..Len(y.queue) : i < j => y.queue[i].id < y.queue[j].id
      <4> SUFFICES ASSUME NEW i \in 1..Len(y.queue), NEW j \in 1..Len(y.queue), i < j
                   PROVE  y.queue[i].id < y.queue[j].id
        OBVIOUS
      <4>1. i \in 1..Len(x.queue) /\ y.queue[i] = x.queue[i]
        BY <2>2, <3>1, <3>2
      <4>2. CASE j \in 1..Len(x.queue) /\ y.queue[j] = x.queue[j]
        BY <2>1, <4>1, <4>2 DEF QueueAhead
      <4>3. CASE y.queue[j] = f
        <5>1. x.queue[i].id <= last /\ x.queue[i].id \in Nat
          BY <2>1, <2>3, <4>1 DEF QueueAhead
        <5>2. QED BY <4>1, <4>3, <5>1
      <4>4. QED BY <3>2, <4>2, <4>3
    <3>4. \A i \in 1..Len(y.queue) :
             y.lastId < y.queue[i].id /\ y.since < y.queue[i].id /\ y.queue[i].id <= last + 1
      BY <1>1, <2>1, <2>2, <2>3, <3>2 DEF QueueAhead
    <3>5. QED BY <1>1, <2>1, <2>2, <3>3, <3>4 DEF QueueAhead
  <2>6. QED BY <2>4, <2>5
<1>5. QED BY <1>3, <1>4 DEF StreamInv, y

(* A frame later than everything sent is sent.                             *)
Sent(x, f) == [x EXCEPT !.sent = Append(@, f), !.lastId = IF f.id > @ THEN f.id ELSE @]

LEMMA SentFields ==
  ASSUME NEW x \in Stream, NEW f \in AnyFrame
  PROVE  /\ Sent(x, f) \in Stream
         /\ Sent(x, f).pc = x.pc /\ Sent(x, f).execution = x.execution
         /\ Sent(x, f).replay = x.replay /\ Sent(x, f).queue = x.queue /\ Sent(x, f).since = x.since
         /\ Sent(x, f).sent = Append(x.sent, f)
         /\ Sent(x, f).lastId = IF f.id > x.lastId THEN f.id ELSE x.lastId
<1> DEFINE s == Append(x.sent, f)
           l == IF f.id > x.lastId THEN f.id ELSE x.lastId
<1>1. Sent(x, f) = [x EXCEPT !.sent = s, !.lastId = l]
  BY DEF Sent
<1>2. s \in Seq(AnyFrame) /\ l \in Nat
  BY Appended DEF Stream, AnyFrame
<1> HIDE DEF s, l
<1>3. QED BY <1>1, <1>2 DEF Stream, s, l

LEMMA SendsInOrder ==
  ASSUME NEW x \in Stream, NEW f \in AnyFrame, SentInOrder(x), f.id > x.lastId,
         \A i \in 1..Len(x.sent) : x.sent[i].id <= x.lastId
  PROVE  /\ SentInOrder(Sent(x, f)) /\ Sent(x, f).lastId = f.id
         /\ \A i \in 1..Len(Sent(x, f).sent) : Sent(x, f).sent[i].id <= f.id
<1> DEFINE y == Sent(x, f)
<1>1. y.sent = Append(x.sent, f) /\ y.lastId = f.id
  BY SentFields
<1> HIDE DEF y
<1>2. /\ x.sent \in Seq(AnyFrame) /\ Len(x.sent) \in Nat /\ x.lastId \in Nat /\ f.id \in Nat
  BY DEF Stream, AnyFrame
<1>3. \A i \in 1..Len(x.sent) : x.sent[i].id \in Nat
  BY <1>2, FrameIds
<1>4. /\ Len(y.sent) = Len(x.sent) + 1
      /\ \A i \in 1..Len(x.sent) : y.sent[i] = x.sent[i]
      /\ y.sent[Len(x.sent) + 1] = f
  BY <1>1, <1>2, Appended
<1>5. \A i \in 1..Len(y.sent) :
         \/ i \in 1..Len(x.sent) /\ y.sent[i] = x.sent[i]
         \/ i = Len(x.sent) + 1 /\ y.sent[i] = f
  BY <1>2, <1>4
<1>6. SentInOrder(y)
  <2> SUFFICES ASSUME NEW i \in 1..Len(y.sent), NEW j \in 1..Len(y.sent), i < j
               PROVE  y.sent[i].id < y.sent[j].id
    BY DEF SentInOrder
  <2>1. i \in 1..Len(x.sent) /\ y.sent[i] = x.sent[i]
    BY <1>2, <1>4, <1>5
  <2>2. CASE j \in 1..Len(x.sent) /\ y.sent[j] = x.sent[j]
    BY <2>1, <2>2 DEF SentInOrder
  <2>3. CASE y.sent[j] = f
    <3>1. x.sent[i].id <= x.lastId /\ x.sent[i].id \in Nat
      BY <1>3, <2>1
    <3>2. QED BY <1>2, <2>1, <2>3, <3>1
  <2>4. QED BY <1>5, <2>2, <2>3
<1>7. \A i \in 1..Len(y.sent) : y.sent[i].id <= f.id
  BY <1>2, <1>3, <1>5
<1>8. QED BY <1>1, <1>6, <1>7 DEF y

(* Replaying an entry of the history.                                      *)
Replayed(x) == [Sent(x, Frame(Head(x.replay), "log")) EXCEPT !.replay = Tail(@)]

LEMMA StreamReplays ==
  ASSUME NEW x \in Stream, x.pc = "replaying", x.replay # <<>>, NEW last \in Nat,
         NEW t \in AnyFrame, StreamInv(x, last, t),
         NEW y, y = Replayed(x)
  PROVE  /\ y \in Stream /\ StreamInv(y, last, t)
         /\ y.pc = x.pc /\ y.execution = x.execution /\ y.since = x.since /\ y.queue = x.queue
         /\ y.sent = Append(x.sent, Frame(Head(x.replay), "log"))
<1> DEFINE h == Head(x.replay)
           f == Frame(h, "log")
           z == Sent(x, f)
<1>1. x.replay \in Seq(Nat)
  BY DEF Stream
<1>2. /\ Tail(x.replay) \in Seq(Nat) /\ Len(x.replay) \in Nat /\ Len(x.replay) > 0
      /\ Len(Tail(x.replay)) = Len(x.replay) - 1 /\ h = x.replay[1] /\ h \in Nat
      /\ \A i \in 1..Len(Tail(x.replay)) :
           i + 1 \in 1..Len(x.replay) /\ Tail(x.replay)[i] = x.replay[i + 1]
  BY <1>1, Dropped
<1>3. f \in AnyFrame /\ f.id = h
  BY <1>2, FrameFields DEF Events
<1>4. QueueAhead(x, last) /\ ReplayAhead(x, t) /\ SentInOrder(x)
  BY DEF StreamInv, Listening
<1>5. x.lastId < h /\ h <= x.since /\ 1 \in 1..Len(x.replay)
  BY <1>2, <1>4 DEF ReplayAhead
<1>6. /\ z \in Stream /\ z.pc = x.pc /\ z.execution = x.execution /\ z.since = x.since
      /\ z.queue = x.queue /\ z.sent = Append(x.sent, f) /\ z.replay = x.replay
  BY <1>3, SentFields
<1>7. SentInOrder(z) /\ z.lastId = h /\ \A i \in 1..Len(z.sent) : z.sent[i].id <= h
  BY <1>3, <1>4, <1>5, SendsInOrder DEF QueueAhead
<1>8. y = [z EXCEPT !.replay = Tail(x.replay)]
  BY <1>6 DEF Replayed
<1> HIDE DEF z
<1>9. /\ y \in Stream /\ y.pc = x.pc /\ y.execution = x.execution /\ y.since = x.since
      /\ y.queue = x.queue /\ y.sent = z.sent /\ y.lastId = h /\ y.replay = Tail(x.replay)
  BY <1>2, <1>6, <1>7, <1>8 DEF Stream
<1> HIDE DEF h, f
<1>10. x.since \in Nat /\ x.lastId \in Nat
  BY DEF Stream
<1>11. QueueAhead(y, last)
  <2>1. \A i \in 1..Len(x.queue) : x.queue[i].id \in Nat
    BY FrameIds DEF Stream
  <2>2. h <= last
    BY <1>2, <1>4, <1>5, <1>10 DEF QueueAhead
  <2>3. \A i \in 1..Len(x.queue) : h < x.queue[i].id
    BY <1>2, <1>4, <1>5, <1>10, <2>1 DEF QueueAhead
  <2>4. QED BY <1>4, <1>7, <1>9, <2>2, <2>3 DEF QueueAhead
<1>12. ReplayAhead(y, t)
  <2>0. /\ Len(y.replay) \in Nat
        /\ \A i \in 1..Len(y.replay) :
             i + 1 \in 1..Len(x.replay) /\ y.replay[i] = x.replay[i + 1]
    <3>1. y.replay = Tail(x.replay)
      BY <1>9
    <3>2. Len(y.replay) \in Nat
      BY <1>2, <3>1
    <3>3. QED BY <1>2, <3>1, <3>2
  <2>1. \A i \in 1..Len(x.replay) : x.replay[i] \in Nat
    BY <1>1
  <2>2. \A i \in 1..Len(y.replay) : h < y.replay[i] /\ y.replay[i] <= y.since
    <3> SUFFICES ASSUME NEW i \in 1..Len(y.replay)
                 PROVE  h < y.replay[i] /\ y.replay[i] <= y.since
      OBVIOUS
    <3>1. i + 1 \in 1..Len(x.replay) /\ y.replay[i] = x.replay[i + 1] /\ 1 < i + 1
      BY <2>0
    <3>2. QED BY <1>2, <1>4, <1>5, <1>9, <3>1 DEF ReplayAhead
  <2>3. ASSUME NEW i \in 1..Len(y.replay), NEW j \in 1..Len(y.replay), i < j
        PROVE  y.replay[i] < y.replay[j]
    <3>1. /\ i + 1 \in 1..Len(x.replay) /\ y.replay[i] = x.replay[i + 1]
          /\ j + 1 \in 1..Len(x.replay) /\ y.replay[j] = x.replay[j + 1] /\ i + 1 < j + 1
      BY <2>0, <2>3
    <3>2. QED BY <1>4, <3>1 DEF ReplayAhead
  <2>4. t # NoFrame => y.lastId < t.id /\ \A i \in 1..Len(y.replay) : y.replay[i] < t.id
    BY <1>2, <1>4, <1>5, <1>9 DEF ReplayAhead
  <2>5. QED BY <1>5, <1>9, <2>2, <2>3, <2>4 DEF ReplayAhead
<1>13. SentInOrder(y)
  BY <1>7, <1>9 DEF SentInOrder
<1>14. y.sent = Append(x.sent, Frame(Head(x.replay), "log"))
  BY <1>6, <1>9 DEF f, h
<1>15. QED BY <1>9, <1>11, <1>12, <1>13, <1>14 DEF StreamInv

(* Nothing left to replay: the terminal frame, or the queue.               *)
EndedOrFollowing(x, t) == IF t = NoFrame THEN [x EXCEPT !.pc = "following"]
                          ELSE [Sent(x, t) EXCEPT !.pc = "ending"]

LEMMA StreamEndsOrFollows ==
  ASSUME NEW x \in Stream, x.pc = "replaying", NEW last \in Nat, NEW t \in AnyFrame,
         StreamInv(x, last, t), NEW u, NEW y,
         y = EndedOrFollowing(x, t)
  PROVE  /\ y \in Stream /\ StreamInv(y, last, u) /\ y.execution = x.execution
         /\ y.pc \in Active /\ y.pc # "replaying" /\ y.since = x.since /\ y.queue = x.queue
         /\ y.pc = "following" => y.sent = x.sent
<1>1. QueueAhead(x, last) /\ ReplayAhead(x, t) /\ SentInOrder(x)
  BY DEF StreamInv, Listening
<1>2. CASE t = NoFrame
  <2>1. y = [x EXCEPT !.pc = "following"]
    BY <1>2 DEF EndedOrFollowing
  <2>2. /\ y \in Stream /\ y.pc = "following" /\ y.execution = x.execution /\ y.since = x.since
        /\ y.queue = x.queue /\ y.sent = x.sent /\ y.lastId = x.lastId
    BY <2>1 DEF Stream, Active
  <2>3. StreamInv(y, last, u)
    BY <1>1, <2>2 DEF StreamInv, QueueAhead, SentInOrder
  <2>4. QED BY <2>2, <2>3 DEF Active
<1>3. CASE t # NoFrame
  <2> DEFINE z == Sent(x, t)
  <2>1. y = [z EXCEPT !.pc = "ending"]
    BY <1>3 DEF EndedOrFollowing
  <2>2. z \in Stream /\ z.execution = x.execution /\ z.since = x.since /\ z.queue = x.queue
    BY SentFields
  <2>3. SentInOrder(z)
    BY <1>1, <1>3, SendsInOrder DEF ReplayAhead, QueueAhead
  <2> HIDE DEF z
  <2>4. /\ y \in Stream /\ y.pc = "ending" /\ y.execution = x.execution /\ y.since = x.since
        /\ y.queue = x.queue /\ y.sent = z.sent
    BY <2>1, <2>2 DEF Stream, Active
  <2>5. StreamInv(y, last, u)
    BY <2>3, <2>4 DEF StreamInv, SentInOrder, Listening
  <2>6. QED BY <2>4, <2>5 DEF Active
<1>4. QED BY <1>2, <1>3

(* Following the queue: its head was never sent before.                    *)
LEMMA StreamFollows ==
  ASSUME NEW x \in Stream, x.pc = "following", x.queue # <<>>, NEW last \in Nat, NEW t,
         StreamInv(x, last, t)
  PROVE  LET f == Head(x.queue)
             z == [Sent(x, f) EXCEPT !.pc = IF f.event \in Closing THEN "ending" ELSE @]
             y == [z EXCEPT !.queue = Tail(@)]
         IN  /\ f = x.queue[1] /\ f.id > x.lastId
             /\ y \in Stream /\ StreamInv(y, last, t) /\ y.execution = x.execution
             /\ y.pc = (IF f.event \in Closing THEN "ending" ELSE "following") /\ y.since = x.since
             /\ y.queue = Tail(x.queue) /\ y.sent = Append(x.sent, f)
<1> DEFINE f == Head(x.queue)
           p == IF f.event \in Closing THEN "ending" ELSE "following"
           w == Sent(x, f)
           z == [w EXCEPT !.pc = IF f.event \in Closing THEN "ending" ELSE @]
           y == [z EXCEPT !.queue = Tail(@)]
<1>1. x.queue \in Seq(AnyFrame) /\ x.lastId \in Nat /\ x.since \in Nat
  BY DEF Stream
<1>2. /\ Tail(x.queue) \in Seq(AnyFrame) /\ Len(x.queue) \in Nat /\ Len(x.queue) > 0
      /\ Len(Tail(x.queue)) = Len(x.queue) - 1 /\ f = x.queue[1] /\ f \in AnyFrame
      /\ \A i \in 1..Len(Tail(x.queue)) :
           i + 1 \in 1..Len(x.queue) /\ Tail(x.queue)[i] = x.queue[i + 1]
  BY <1>1, Dropped
<1>3. QueueAhead(x, last) /\ SentInOrder(x)
  BY DEF StreamInv, Listening
<1>4. f.id > x.lastId /\ f.id <= last /\ f.id \in Nat /\ x.since < f.id /\ 1 \in 1..Len(x.queue)
  <2>1. f.id \in Nat /\ 1 \in 1..Len(x.queue)
    BY <1>2 DEF AnyFrame
  <2>2. x.lastId < f.id /\ x.since < f.id /\ f.id <= last
    BY <1>2, <1>3, <2>1 DEF QueueAhead
  <2>3. QED BY <1>1, <2>1, <2>2
<1>5. /\ w \in Stream /\ w.pc = "following" /\ w.execution = x.execution /\ w.since = x.since
      /\ w.queue = x.queue /\ w.sent = Append(x.sent, f)
  BY <1>2, SentFields
<1>6. SentInOrder(w) /\ w.lastId = f.id /\ \A i \in 1..Len(w.sent) : w.sent[i].id <= f.id
  BY <1>2, <1>3, <1>4, SendsInOrder DEF QueueAhead
<1>7. p \in {"ending", "following"} /\ z = [w EXCEPT !.pc = p]
  BY <1>5
<1> HIDE DEF w, p
<1>8. /\ z \in Stream /\ z.pc = p /\ z.execution = x.execution /\ z.since = x.since
      /\ z.queue = x.queue /\ z.sent = w.sent /\ z.lastId = f.id
  BY <1>5, <1>6, <1>7 DEF Stream, Active
<1> HIDE DEF z
<1>9. /\ y \in Stream /\ y.pc = p /\ y.execution = x.execution /\ y.since = x.since
      /\ y.queue = Tail(x.queue) /\ y.sent = w.sent /\ y.lastId = f.id
  BY <1>2, <1>8 DEF Stream
<1> HIDE DEF y, f
<1>10. QueueAhead(y, last)
  <2>1. \A i \in 1..Len(x.queue) : x.queue[i].id \in Nat
    BY <1>1, FrameIds
  <2>2. ASSUME NEW i \in 1..Len(y.queue), NEW j \in 1..Len(y.queue), i < j
        PROVE  y.queue[i].id < y.queue[j].id
    <3>1. /\ i + 1 \in 1..Len(x.queue) /\ y.queue[i] = x.queue[i + 1]
          /\ j + 1 \in 1..Len(x.queue) /\ y.queue[j] = x.queue[j + 1] /\ i + 1 < j + 1
      BY <1>2, <1>9, <2>2
    <3>2. QED BY <1>3, <3>1 DEF QueueAhead
  <2>3. ASSUME NEW i \in 1..Len(y.queue)
        PROVE  f.id < y.queue[i].id /\ x.since < y.queue[i].id /\ y.queue[i].id <= last
    <3>1. i + 1 \in 1..Len(x.queue) /\ y.queue[i] = x.queue[i + 1] /\ 1 < i + 1
      BY <1>2, <1>9
    <3>2. QED BY <1>2, <1>3, <1>4, <3>1 DEF QueueAhead
  <2>4. x.since <= last
    BY <1>3 DEF QueueAhead
  <2>5. QED BY <1>4, <1>6, <1>9, <2>2, <2>3, <2>4 DEF QueueAhead
<1>11. y.pc # "replaying"
  BY <1>7, <1>9
<1>12. StreamInv(y, last, t)
  BY <1>6, <1>9, <1>10, <1>11 DEF StreamInv, SentInOrder
<1>13. QED BY <1>2, <1>4, <1>5, <1>9, <1>12 DEF f, p, y, z, w

(* A stream that is opened replays the history of its execution.           *)
Opened(e, h, last) ==
  [Unopened EXCEPT !.pc = "replaying", !.execution = e, !.replay = h, !.since = last]

LEMMA StreamOpens ==
  ASSUME NEW e \in Executions, NEW h \in Seq(Nat), NEW last \in Nat, NEW P \in SUBSET Nat,
         NEW t \in AnyFrame, NEW over, HistoryInv(h, P, t, over, last),
         NEW u, u = t \/ u = NoFrame,
         NEW y, y = Opened(e, h, last)
  PROVE  /\ y \in Stream /\ StreamInv(y, last, u) /\ y.pc = "replaying" /\ y.execution = e
         /\ y.since = last
<1>1. y = [pc |-> "replaying", execution |-> e, replay |-> h, lastId |-> 0, queue |-> <<>>,
           sent |-> <<>>, since |-> last]
  BY DEF Unopened, Opened
<1>2. <<>> \in Seq(AnyFrame) /\ Len(<<>>) = 0
  BY Nothing
<1>3. /\ y \in Stream /\ y.pc = "replaying" /\ y.execution = e /\ y.since = last /\ y.replay = h
      /\ y.lastId = 0 /\ y.queue = <<>> /\ y.sent = <<>>
  <2> DEFINE z == <<>>
  <2>1. z \in Seq(AnyFrame)
    BY <1>2
  <2>2. y = [pc |-> "replaying", execution |-> e, replay |-> h, lastId |-> 0, queue |-> z,
             sent |-> z, since |-> last]
    BY <1>1
  <2> HIDE DEF z
  <2>3. /\ y.pc = "replaying" /\ y.execution = e /\ y.since = last /\ y.replay = h
        /\ y.lastId = 0 /\ y.queue = z /\ y.sent = z
    BY ONLY <2>2
  <2>4. "replaying" \in Active \cup {"unopened", "closed"} /\ e \in Executions \cup {Unopened.execution}
    BY DEF Active
  <2>5. y \in Stream
    BY ONLY <2>1, <2>2, <2>4, h \in Seq(Nat), last \in Nat, 0 \in Nat DEF Stream
  <2>6. QED BY <2>3, <2>5 DEF z
<1>4. Len(h) \in Nat /\ \A i \in 1..Len(h) : h[i] \in Nat
  OBVIOUS
<1>5. SentInOrder(y) /\ QueueAhead(y, last)
  BY <1>2, <1>3 DEF SentInOrder, QueueAhead
<1>6. ReplayAhead(y, u)
  <2>1. \A i \in 1..Len(h) : 0 < h[i] /\ h[i] <= last
    BY <1>4 DEF HistoryInv
  <2>2. u # NoFrame => 0 < u.id /\ \A i \in 1..Len(h) : h[i] < u.id
    BY DEF HistoryInv
  <2>3. QED BY <1>3, <2>1, <2>2 DEF ReplayAhead, HistoryInv
<1>7. QED BY <1>3, <1>5, <1>6 DEF StreamInv

(***************************************************************************)
(* The table of histories: each is kept as it was given or evicted.        *)
(***************************************************************************)
Kept(h, t) == \A e \in Executions :
  \/ entries'[e] = h[e] /\ terminal'[e] = t[e]
  \/ entries'[e] = <<>> /\ terminal'[e] = NoFrame

LEMMA TrimmedKeeps ==
  ASSUME NEW q, NEW h, NEW t, NEW subs, Trimmed(q, h, t, subs)
  PROVE  /\ Kept(h, t)
         /\ h \in [Executions -> Seq(Nat)] => entries' \in [Executions -> Seq(Nat)]
         /\ t \in [Executions -> AnyFrame] => terminal' \in [Executions -> AnyFrame]
<1> DEFINE gone == Evicted(q, subs)
<1>1. /\ entries' = [e \in Executions |-> IF e \in gone THEN <<>> ELSE h[e]]
      /\ terminal' = [e \in Executions |-> IF e \in gone THEN NoFrame ELSE t[e]]
  BY DEF Trimmed
<1> HIDE DEF gone
<1>2. <<>> \in Seq(Nat) /\ NoFrame \in AnyFrame
  BY NoFrameFields
<1>3. QED BY <1>1, <1>2 DEF Kept

LEMMA HistoryEvicted ==
  ASSUME NEW h, NEW P, NEW t, NEW over, NEW last, HistoryInv(h, P, t, over, last)
  PROVE  HistoryInv(<<>>, P, NoFrame, over, last)
<1>1. Len(<<>>) = 0
  OBVIOUS
<1>2. QED BY <1>1 DEF HistoryInv

LEMMA HistoryWaits ==
  ASSUME NEW h \in Seq(Nat), NEW P \in SUBSET Nat, NEW t \in AnyFrame, NEW over, NEW last \in Nat,
         HistoryInv(h, P, t, over, last), NEW later \in Nat, later >= last
  PROVE  HistoryInv(h, P, t, over, later)
<1>1. t.id \in Nat
  BY DEF AnyFrame
<1>2. QED BY <1>1 DEF HistoryInv

(* The entry of the next id pushes the oldest one out.                     *)
LEMMA HistoryGrows ==
  ASSUME NEW h \in Seq(Nat), NEW P \in SUBSET Nat, NEW t \in AnyFrame, NEW last \in Nat,
         HistoryInv(h, P, t, FALSE, last)
  PROVE  Push(h, last + 1) \in Seq(Nat)
         /\ HistoryInv(Push(h, last + 1), P \cup {last + 1}, t, FALSE, last + 1)
<1> DEFINE n == last + 1
           g == Append(h, n)
           Q == P \cup {n}
<1>0. HistorySize \in Nat \ {0}
  BY LimitsOK
<1>1. t = NoFrame /\ t.id = 0
  BY NoFrameFields DEF HistoryInv
<1>2. /\ g \in Seq(Nat) /\ Len(h) \in Nat /\ Len(g) = Len(h) + 1
      /\ \A i \in 1..Len(h) : g[i] = h[i] /\ h[i] \in Nat /\ h[i] \in P
      /\ g[Len(h) + 1] = n /\ n \in Nat
  BY Appended DEF HistoryInv
<1>3. \A id \in P : id \in Nat /\ 0 < id /\ id <= last
  BY DEF HistoryInv
<1> HIDE DEF n, g
<1>4. n = last + 1
  BY DEF n
<1>5. \A i \in 1..Len(g) : (i \in 1..Len(h) /\ g[i] = h[i]) \/ (i = Len(h) + 1 /\ g[i] = n)
  BY <1>2
<1>6. \A i \in 1..Len(g) : g[i] \in Q /\ g[i] \in Nat
  BY <1>2, <1>5
<1>7. ASSUME NEW i \in 1..Len(g), NEW j \in 1..Len(g), i < j
      PROVE  g[i] < g[j]
  <2>1. i \in 1..Len(h) /\ g[i] = h[i]
    BY <1>2, <1>5, <1>7
  <2>2. CASE j \in 1..Len(h) /\ g[j] = h[j]
    BY <1>7, <2>1, <2>2 DEF HistoryInv
  <2>3. CASE g[j] = n
    <3>1. h[i] \in Nat /\ h[i] <= last
      BY <1>2, <1>3, <2>1
    <3>2. QED BY <1>4, <2>1, <2>3, <3>1
  <2>4. QED BY <1>5, <2>2, <2>3
<1>8. ASSUME NEW id \in Q, NEW i \in 1..Len(g), id > g[i]
      PROVE  \E j \in 1..Len(g) : g[j] = id /\ j > i
  <2>1. i \in 1..Len(h) /\ g[i] = h[i]
    BY <1>2, <1>3, <1>4, <1>5, <1>8
  <2>2. CASE id = n
    <3>1. Len(h) + 1 \in 1..Len(g) /\ Len(h) + 1 > i
      BY <1>2, <2>1
    <3>2. QED BY <1>2, <2>2, <3>1
  <2>3. CASE id \in P
    <3>1. h # <<>> /\ 1 \in 1..Len(h)
      BY <1>2, <2>1
    <3>2. h[1] <= h[i]
      <4>1. i = 1 \/ 1 < i
        BY <2>1
      <4>2. h[1] \in Nat /\ h[i] \in Nat
        BY <1>2, <2>1, <3>1
      <4>3. QED BY <2>1, <3>1, <4>1, <4>2 DEF HistoryInv
    <3>3. id > h[1] /\ id # t.id
      BY <1>1, <1>2, <1>3, <1>8, <2>1, <2>3, <3>1, <3>2
    <3>4. PICK j \in 1..Len(h) : h[j] = id
      BY <2>3, <3>1, <3>3 DEF HistoryInv
    <3>5. j > i
      <4>1. j < i => h[j] < h[i]
        BY <2>1 DEF HistoryInv
      <4>2. QED BY <1>2, <1>8, <2>1, <3>4, <4>1
    <3>6. j \in 1..Len(g) /\ g[j] = id
      BY <1>2, <3>4
    <3>7. QED BY <3>5, <3>6
  <2>4. QED BY <2>2, <2>3
<1>9. \A id \in Q : 0 < id /\ id <= n
  BY <1>3, <1>4
<1>10. CASE Len(g) > HistorySize
  <2> DEFINE p == Tail(g)
  <2>1. /\ p \in Seq(Nat) /\ Len(p) \in Nat /\ Len(p) = Len(g) - 1 /\ Len(p) > 0
        /\ \A i \in 1..Len(p) : i + 1 \in 1..Len(g) /\ p[i] = g[i + 1]
    <3>1. g # <<>>
      BY <1>2
    <3>2. QED BY <1>0, <1>2, <1>10, <3>1, Dropped
  <2> HIDE DEF p
  <2>2. \A i \in 1..Len(p) : p[i] \in Q
    BY <1>6, <2>1
  <2>3. ASSUME NEW i \in 1..Len(p), NEW j \in 1..Len(p), i < j
        PROVE  p[i] < p[j]
    <3>1. /\ i + 1 \in 1..Len(g) /\ p[i] = g[i + 1] /\ j + 1 \in 1..Len(g) /\ p[j] = g[j + 1]
          /\ i + 1 < j + 1
      BY <2>1, <2>3
    <3>2. QED BY <1>7, <3>1
  <2>4. ASSUME NEW id \in Q, id > p[1]
        PROVE  \E j \in 1..Len(p) : p[j] = id
    <3>1. 2 \in 1..Len(g) /\ p[1] = g[2]
      BY <2>1
    <3>2. PICK j \in 1..Len(g) : g[j] = id /\ j > 2
      BY <1>8, <2>4, <3>1
    <3>3. j - 1 \in 1..Len(p) /\ p[j - 1] = g[j]
      <4>1. j - 1 \in 1..Len(p) /\ (j - 1) + 1 = j
        BY <1>2, <2>1, <3>2
      <4>2. QED BY <2>1, <4>1
    <3>4. QED BY <3>2, <3>3
  <2>5. Push(h, n) = p
    BY <1>10 DEF Push, g, p
  <2>6. HistoryInv(p, Q, t, FALSE, n)
    BY <1>1, <1>9, <2>2, <2>3, <2>4 DEF HistoryInv
  <2>7. QED BY <2>1, <2>5, <2>6 DEF n
<1>11. CASE ~(Len(g) > HistorySize)
  <2>1. Push(h, n) = g
    BY <1>11 DEF Push, g
  <2>2. \A id \in Q \ {t.id} : g # <<>> /\ id > g[1] => \E j \in 1..Len(g) : g[j] = id
    <3>1. 1 \in 1..Len(g)
      BY <1>2
    <3>2. QED BY <1>8, <3>1
  <2>3. HistoryInv(g, Q, t, FALSE, n)
    BY <1>1, <1>6, <1>7, <1>9, <2>2 DEF HistoryInv
  <2>4. QED BY <1>2, <2>1, <2>3 DEF n
<1>12. QED BY <1>10, <1>11

(* The execution ends with the next id.                                    *)
LEMMA HistoryEnds ==
  ASSUME NEW h \in Seq(Nat), NEW P \in SUBSET Nat, NEW t \in AnyFrame, NEW last \in Nat,
         HistoryInv(h, P, t, FALSE, last), NEW f \in AnyFrame, f.id = last + 1
  PROVE  HistoryInv(h, P \cup {last + 1}, f, TRUE, last + 1)
<1>1. t.id = 0 /\ f # NoFrame
  BY NoFrameFields DEF HistoryInv
<1>2. \A i \in 1..Len(h) : h[i] \in P
  BY DEF HistoryInv
<1>3. \A id \in P : id \in Nat /\ 0 < id /\ id <= last
  BY DEF HistoryInv
<1>4. \A i \in 1..Len(h) : h[i] < f.id
  BY <1>2, <1>3
<1>5. \A id \in (P \cup {last + 1}) \ {f.id} : h # <<>> /\ id > h[1] => \E j \in 1..Len(h) : h[j] = id
  <2> SUFFICES ASSUME NEW id \in P, h # <<>>, id > h[1]
               PROVE  \E j \in 1..Len(h) : h[j] = id
    OBVIOUS
  <2>1. 1 \in 1..Len(h)
    OBVIOUS
  <2>2. id # 0
    BY <1>2, <1>3, <2>1
  <2>3. QED BY <1>1, <2>2 DEF HistoryInv
<1>6. \A id \in P \cup {last + 1} : 0 < id /\ id <= last + 1
  BY <1>3
<1>7. \A i, j \in 1..Len(h) : i < j => h[i] < h[j]
  BY DEF HistoryInv
<1>8. QED BY <1>1, <1>2, <1>4, <1>5, <1>6, <1>7 DEF HistoryInv

(***************************************************************************)
(* What a stream is told.                                                  *)
(***************************************************************************)
LEMMA TellsSame ==
  ASSUME NEW x, NEW P, NEW a, NEW b, a <=> b, TellInv(x, a, P)
  PROVE  TellInv(x, b, P)
<1>1. CASE a
  BY <1>1 DEF TellInv
<1>2. CASE ~a
  BY <1>2 DEF TellInv
<1>3. QED BY <1>1, <1>2

LEMMA TellsMore ==
  ASSUME NEW x \in Stream, NEW y \in Stream, NEW registered, NEW P, TellInv(x, registered, P),
         NEW f \in AnyFrame, y.since = x.since, y.queue = x.queue, y.sent = Append(x.sent, f),
         Listening(x)
  PROVE  TellInv(y, registered, P)
<1>1. x.sent \in Seq(AnyFrame)
  BY DEF Stream
<1>2. /\ Len(x.sent) \in Nat /\ Len(y.sent) = Len(x.sent) + 1
      /\ \A i \in 1..Len(x.sent) : y.sent[i] = x.sent[i]
  BY <1>1, Appended
<1>3. \A i \in 1..Len(x.sent) : i \in 1..Len(y.sent)
  BY <1>2
<1>4. \A id : (\E i \in 1..Len(x.sent) : x.sent[i].id = id) => \E i \in 1..Len(y.sent) : y.sent[i].id = id
  BY <1>2, <1>3
<1>5. QED BY <1>4 DEF TellInv

LEMMA TellsHead ==
  ASSUME NEW x \in Stream, NEW y \in Stream, NEW registered, NEW P, TellInv(x, registered, P),
         x.pc = "following", x.queue # <<>>, y.since = x.since, y.queue = Tail(x.queue),
         y.sent = Append(x.sent, Head(x.queue)),
         y.pc = IF Head(x.queue).event \in Closing THEN "ending" ELSE "following"
  PROVE  TellInv(y, registered, P)
<1>1. x.sent \in Seq(AnyFrame) /\ x.queue \in Seq(AnyFrame)
  BY DEF Stream
<1>2. /\ Len(x.queue) \in Nat /\ Len(x.queue) > 0 /\ Len(y.queue) = Len(x.queue) - 1
      /\ Head(x.queue) = x.queue[1] /\ Head(x.queue) \in AnyFrame
      /\ \A i \in 1..Len(y.queue) : y.queue[i] = x.queue[i + 1]
  BY <1>1, Dropped
<1>3. /\ Len(x.sent) \in Nat /\ Len(y.sent) = Len(x.sent) + 1
      /\ \A i \in 1..Len(x.sent) : y.sent[i] = x.sent[i]
      /\ y.sent[Len(x.sent) + 1] = x.queue[1]
  BY <1>1, <1>2, Appended
<1>4. SUFFICES ASSUME Listening(y)
               PROVE  TellInv(y, registered, P)
  BY DEF TellInv
<1>5. Head(x.queue).event \notin Closing
  BY <1>4 DEF Listening
<1>6. x.queue[1].event # "overflow"
  BY <1>2, <1>5 DEF Closing
<1>7. registered
  BY <1>6 DEF TellInv, Listening
<1>8. ASSUME NEW id \in P, id > y.since
      PROVE  \/ \E i \in 1..Len(y.sent) : y.sent[i].id = id
             \/ \E i \in 1..Len(y.queue) : y.queue[i].id = id
  <2>1. \/ \E i \in 1..Len(x.sent) : x.sent[i].id = id
        \/ \E i \in 1..Len(x.queue) : x.queue[i].id = id
    BY <1>7, <1>8 DEF TellInv, Listening
  <2>2. CASE \E i \in 1..Len(x.sent) : x.sent[i].id = id
    <3>1. PICK i \in 1..Len(x.sent) : x.sent[i].id = id
      BY <2>2
    <3>2. i \in 1..Len(y.sent) /\ y.sent[i].id = id
      BY <1>3, <3>1
    <3>3. QED BY <3>2
  <2>3. CASE \E i \in 1..Len(x.queue) : x.queue[i].id = id
    <3>1. PICK i \in 1..Len(x.queue) : x.queue[i].id = id
      BY <2>3
    <3>2. CASE i = 1
      <4>1. Len(x.sent) + 1 \in 1..Len(y.sent) /\ y.sent[Len(x.sent) + 1].id = id
        BY <1>3, <3>1, <3>2
      <4>2. QED BY <4>1
    <3>3. CASE i # 1
      <4>1. i - 1 \in 1..Len(y.queue) /\ (i - 1) + 1 = i
        BY <1>2, <3>1, <3>3
      <4>2. y.queue[i - 1].id = id
        BY <1>2, <3>1, <4>1
      <4>3. QED BY <4>1, <4>2
    <3>4. QED BY <3>2, <3>3
  <2>4. QED BY <2>1, <2>2, <2>3
<1>9. QED BY <1>7, <1>8 DEF TellInv

(* A frame is queued for a registered stream, which is kicked if its queue *)
(* is full.                                                                *)
LEMMA TellsQueued ==
  ASSUME NEW x \in Stream, NEW f \in AnyFrame, NEW P, TellInv(x, TRUE, P),
         NEW kept, kept <=> Len(x.queue) # QueueSize
  PROVE  TellInv(Queued(x, f), kept, P \cup {f.id})
<1> DEFINE y == Queued(x, f)
<1>1. /\ y.pc = x.pc /\ y.sent = x.sent /\ y.since = x.since
      /\ y.queue = IF Len(x.queue) = QueueSize THEN <<Frame(f.id, "overflow")>> ELSE Append(x.queue, f)
  BY QueuedFields
<1> HIDE DEF y
<1>2. CASE Len(x.queue) = QueueSize
  <2>1. y.queue = <<Frame(f.id, "overflow")>> /\ Frame(f.id, "overflow").event = "overflow"
    BY <1>1, <1>2, FrameFields DEF Events, AnyFrame
  <2>2. Len(y.queue) = 1 /\ y.queue[1].event = "overflow"
    BY <2>1
  <2>3. ~kept
    BY <1>2
  <2>4. QED BY <2>2, <2>3 DEF TellInv, y
<1>3. CASE Len(x.queue) # QueueSize
  <2>1. x.queue \in Seq(AnyFrame) /\ y.queue = Append(x.queue, f)
    BY <1>1, <1>3 DEF Stream
  <2>2. /\ Len(x.queue) \in Nat /\ Len(y.queue) = Len(x.queue) + 1
        /\ \A i \in 1..Len(x.queue) : y.queue[i] = x.queue[i]
        /\ y.queue[Len(x.queue) + 1] = f
    BY <2>1, Appended
  <2>3. /\ \A i \in 1..Len(x.queue) : i \in 1..Len(y.queue)
        /\ Len(x.queue) + 1 \in 1..Len(y.queue)
    BY <2>2
  <2>4. \A id : (\E i \in 1..Len(x.queue) : x.queue[i].id = id) =>
                   \E i \in 1..Len(y.queue) : y.queue[i].id = id
    BY <2>2, <2>3
  <2>5. \E i \in 1..Len(y.queue) : y.queue[i].id = f.id
    BY <2>2, <2>3
  <2>6. TellInv(y, TRUE, P \cup {f.id})
    BY <1>1, <2>4, <2>5 DEF TellInv, Listening
  <2>7. kept
    BY <1>3
  <2>8. QED BY <2>6, <2>7 DEF TellInv, y
<1>4. QED BY <1>2, <1>3

(***************************************************************************)
(* Steps.                                                                  *)
(***************************************************************************)

(* Streams that are left alone while histories may be evicted.             *)
LEMMA StreamsWait ==
  ASSUME Inv, NEW r \in Readers, NEW last \in Nat, last = sequence, Kept(entries, terminal),
         terminal' \in [Executions -> AnyFrame]
  PROVE  StreamInv(reader[r], last, terminal'[Of(r)])
<1>1. StreamInv(reader[r], last, terminal[Of(r)]) /\ reader[r] \in Stream
  BY DEF Inv, Streams, StateTypes
<1>2. CASE reader[r].pc = "unopened"
  BY <1>1, <1>2 DEF StreamInv, Listening
<1>3. CASE reader[r].pc # "unopened"
  <2>1. Of(r) \in Executions
    BY <1>3 DEF Inv, StateTypes, Of
  <2>2. terminal'[Of(r)] \in AnyFrame /\ terminal'[Of(r)] \in {terminal[Of(r)], NoFrame}
    BY <2>1 DEF Kept
  <2>3. QED BY <1>1, <2>2, StreamWaits
<1>4. QED BY <1>2, <1>3

LEMMA HistoriesWait ==
  ASSUME Inv, Kept(entries, terminal), UNCHANGED <<sequence, published, ended>>
  PROVE  Histories'
<1>1. ASSUME NEW e \in Executions
      PROVE  HistoryInv(entries'[e], published[e], terminal'[e], ended[e], sequence)
  <2>1. HistoryInv(entries[e], published[e], terminal[e], ended[e], sequence)
    BY DEF Inv, Histories
  <2>2. QED BY <2>1, HistoryEvicted DEF Kept
<1>2. QED BY <1>1 DEF Histories

(* The tables alone.                                                       *)
LEMMA TablesMove ==
  ASSUME Inv, NEW q, NEW subs, Trimmed(q, entries, terminal, subs),
         UNCHANGED <<subscribers, sequence, published, ended, reader>>
  PROVE  Inv'
<1>1. Kept(entries, terminal) /\ entries' \in [Executions -> Seq(Nat)]
      /\ terminal' \in [Executions -> AnyFrame]
  BY TrimmedKeeps DEF Inv, StateTypes
<1>2. Histories'
  BY <1>1, HistoriesWait
<1>3. \A r \in Readers : StreamInv(reader[r], sequence, terminal'[Of(r)])
  BY <1>1, StreamsWait DEF Inv, StateTypes
<1>4. Streams'
  BY <1>3 DEF Streams, Of
<1>5. StateTypes' /\ Registered' /\ Tellings'
  BY <1>1 DEF Inv, StateTypes, Registered, Tellings, Of
<1>6. QED BY <1>2, <1>4, <1>5 DEF Inv

(* One stream moves; the others stay, registered or not.                   *)
LEMMA ReaderMoves ==
  ASSUME Inv, NEW r \in Readers, NEW y \in Stream, y.execution \in Executions,
         reader' = [reader EXCEPT ![r] = y],
         Kept(entries, terminal), entries' \in [Executions -> Seq(Nat)],
         terminal' \in [Executions -> AnyFrame], UNCHANGED <<sequence, published, ended>>,
         subscribers' \in [Executions -> SUBSET Readers],
         \A e \in Executions : \A q \in Readers \ {r} : q \in subscribers'[e] <=> q \in subscribers[e],
         \A e \in Executions : r \in subscribers'[e] => y.execution = e /\ y.pc \in Active,
         StreamInv(y, sequence, terminal'[y.execution]),
         TellInv(y, r \in subscribers'[y.execution], published[y.execution])
  PROVE  Inv'
<1>0. reader \in [Readers -> Stream] /\ sequence \in Nat
  BY DEF Inv, StateTypes
<1>1. reader'[r] = y /\ \A q \in Readers \ {r} : reader'[q] = reader[q]
  BY <1>0
<1>2. StateTypes'
  BY <1>0, <1>1 DEF Inv, StateTypes
<1>3. Histories'
  BY HistoriesWait
<1>4. Registered'
  <2>1. ASSUME NEW e \in Executions, NEW q \in subscribers'[e]
        PROVE  reader'[q].execution = e /\ reader'[q].pc \in Active
    <3>1. q \in Readers
      OBVIOUS
    <3>2. CASE q = r
      BY <1>1, <3>2
    <3>3. CASE q # r
      <4>1. q \in subscribers[e]
        BY <3>1, <3>3
      <4>2. QED BY <1>1, <3>1, <3>3, <4>1 DEF Inv, Registered
    <3>4. QED BY <3>2, <3>3
  <2>2. QED BY <2>1 DEF Registered
<1>5. \A q \in Readers : StreamInv(reader'[q], sequence', terminal'[reader'[q].execution])
  <2>1. \A q \in Readers : StreamInv(reader[q], sequence, terminal'[reader[q].execution])
    BY <1>0, StreamsWait DEF Of
  <2>2. QED BY <1>1, <2>1
<1>6. \A q \in Readers : TellInv(reader'[q], q \in subscribers'[reader'[q].execution],
                                 published'[reader'[q].execution])
  <2> SUFFICES ASSUME NEW q \in Readers
               PROVE  TellInv(reader'[q], q \in subscribers'[reader'[q].execution],
                              published'[reader'[q].execution])
    OBVIOUS
  <2>1. CASE q = r
    BY <1>1, <2>1
  <2>2. CASE q # r
    <3>1. TellInv(reader[q], q \in subscribers[Of(q)], published[Of(q)])
      BY DEF Inv, Tellings
    <3>2. CASE ~Listening(reader[q])
      BY <1>1, <2>2, <3>2 DEF TellInv
    <3>3. CASE Listening(reader[q])
      <4>1. Of(q) \in Executions
        BY <3>3 DEF Inv, StateTypes, Listening, Of
      <4>2. q \in subscribers'[Of(q)] <=> q \in subscribers[Of(q)]
        BY <2>2, <4>1
      <4>3. reader'[q] = reader[q] /\ reader'[q].execution = Of(q) /\ published' = published
        BY <1>1, <2>2 DEF Of
      <4>4. TellInv(reader[q], q \in subscribers'[Of(q)], published[Of(q)])
        BY <3>1, <4>2, TellsSame
      <4>5. QED BY <4>3, <4>4
    <3>4. QED BY <3>2, <3>3
  <2>3. QED BY <2>1, <2>2
<1>7. QED BY <1>2, <1>3, <1>4, <1>5, <1>6 DEF Inv, Streams, Tellings, Of

(* A frame of the next id is announced to the streams of an execution.     *)
LEMMA Announced ==
  ASSUME Inv, NEW e \in Executions, NEW f \in AnyFrame, f.id = sequence + 1, Announce(e, f),
         terminal' \in [Executions -> AnyFrame],
         \A g \in Executions : \/ terminal'[g] = terminal[g] \/ terminal'[g] = NoFrame
                               \/ terminal'[g].id = sequence + 1,
         entries' \in [Executions -> Seq(Nat)], ended' \in [Executions -> BOOLEAN]
  PROVE  StateTypes' /\ Registered' /\ Streams' /\ Tellings'
<1> DEFINE slow == {r \in subscribers[e] : Len(reader[r].queue) = QueueSize}
<1>0. /\ reader \in [Readers -> Stream] /\ sequence \in Nat
      /\ subscribers \in [Executions -> SUBSET Readers]
      /\ published \in [Executions -> SUBSET Nat]
  BY DEF Inv, StateTypes
<1>1. /\ sequence' = sequence + 1
      /\ published' = [published EXCEPT ![e] = @ \cup {f.id}]
      /\ subscribers' = [subscribers EXCEPT ![e] = @ \ slow]
  BY DEF Announce, Broadcast
<1>2. reader' = [r \in Readers |-> IF r \in subscribers[e] THEN Queued(reader[r], f) ELSE reader[r]]
  BY DEF Announce, Broadcast, Enqueue, Queued
<1> HIDE DEF slow
<1>3. ASSUME NEW r \in Readers
      PROVE  /\ reader'[r] \in Stream /\ reader'[r].pc = reader[r].pc
             /\ reader'[r].execution = reader[r].execution
  <2>1. reader[r] \in Stream
    BY <1>0
  <2> DEFINE x == reader[r]
             y == Queued(x, f)
  <2>2. reader'[r] = y \/ reader'[r] = x
    BY <1>2
  <2>3. y \in Stream /\ y.pc = x.pc /\ y.execution = x.execution
    BY <2>1, QueuedFields
  <2> HIDE DEF y
  <2>4. QED BY <2>1, <2>2, <2>3
<1>4. StateTypes'
  <2>1. reader' \in [Readers -> Stream]
    BY <1>2, <1>3
  <2>2. f.id \in Nat /\ sequence' \in Nat
    BY <1>0, <1>1
  <2>3. subscribers' \in [Executions -> SUBSET Readers] /\ published' \in [Executions -> SUBSET Nat]
    BY <1>0, <1>1, <2>2
  <2>4. \A r \in Readers : reader'[r].pc # "unopened" => reader'[r].execution \in Executions
    BY <1>3 DEF Inv, StateTypes
  <2>5. QED BY <2>1, <2>2, <2>3, <2>4 DEF StateTypes
<1>5. Registered'
  <2>1. ASSUME NEW g \in Executions, NEW r \in subscribers'[g]
        PROVE  reader'[r].execution = g /\ reader'[r].pc \in Active
    <3>1. r \in subscribers[g] /\ r \in Readers
      BY <1>0, <1>1
    <3>2. QED BY <1>3, <3>1 DEF Inv, Registered
  <2>2. QED BY <2>1 DEF Registered
<1>6. ASSUME NEW r \in Readers
      PROVE  StreamInv(reader'[r], sequence + 1, terminal'[reader[r].execution])
  <2> DEFINE x == reader[r]
             u == terminal'[x.execution]
  <2>1. x \in Stream /\ StreamInv(x, sequence, terminal[x.execution])
    BY <1>0 DEF Inv, Streams, Of
  <2>2. reader'[r] = IF r \in subscribers[e] THEN Queued(x, f) ELSE x
    BY <1>2
  <2>3. CASE ~Listening(x)
    <3>1. ~Listening(reader'[r]) /\ reader'[r].sent = x.sent
      <4>1. Queued(x, f).sent = x.sent
        BY <2>1, QueuedFields
      <4>2. reader'[r].sent = x.sent
        BY <2>2, <4>1
      <4>3. QED BY <1>3, <2>3, <4>2 DEF Listening
    <3>2. QED BY <2>1, <3>1 DEF StreamInv, SentInOrder, Listening
  <2>4. CASE Listening(x)
    <3>1. x.execution \in Executions
      BY <2>4 DEF Inv, StateTypes, Listening
    <3>2. u \in AnyFrame /\ (u = terminal[x.execution] \/ u = NoFrame \/ u.id = sequence + 1)
      BY <3>1
    <3> HIDE DEF x, u
    <3>3. StreamInv(x, sequence + 1, u)
      BY <1>0, <2>1, <3>2, StreamWaits
    <3>4. StreamInv(Queued(x, f), sequence + 1, u)
      BY <1>0, <2>1, <3>2, StreamQueues
    <3>5. QED BY <2>2, <3>3, <3>4 DEF u, x
  <2>5. QED BY <2>3, <2>4
<1>7. Streams'
  BY <1>1, <1>3, <1>6 DEF Streams, Of
<1>8. ASSUME NEW r \in Readers
      PROVE  TellInv(reader'[r], r \in subscribers'[reader'[r].execution],
                     published'[reader'[r].execution])
  <2> DEFINE x == reader[r]
             g == x.execution
             was == r \in subscribers[g]
             is == r \in subscribers'[g]
  <2>1. x \in Stream /\ TellInv(x, was, published[g]) /\ reader'[r].execution = g
    BY <1>0, <1>3 DEF Inv, Tellings, Of
  <2>2. CASE ~Listening(x)
    <3>1. ~Listening(reader'[r])
      BY <1>3, <2>2 DEF Listening
    <3>2. QED BY <3>1 DEF TellInv
  <2>3. CASE Listening(x)
    <3>1. g \in Executions
      BY <2>3 DEF Inv, StateTypes, Listening
    <3>2. CASE r \in subscribers[e]
      <4>1. g = e /\ was
        BY <3>2 DEF Inv, Registered
      <4>2. is <=> Len(x.queue) # QueueSize
        BY <1>0, <1>1, <3>2, <4>1 DEF slow
      <4>3. TellInv(x, TRUE, published[e])
        BY <2>1, <4>1, TellsSame
      <4>4. TellInv(Queued(x, f), is, published[e] \cup {f.id})
        BY <2>1, <4>2, <4>3, TellsQueued
      <4>5. reader'[r] = Queued(x, f) /\ published'[e] = published[e] \cup {f.id}
        BY <1>0, <1>1, <1>2, <3>2
      <4>6. QED BY <2>1, <4>1, <4>4, <4>5
    <3>3. CASE r \notin subscribers[e]
      <4>1. reader'[r] = x
        BY <1>2, <3>3
      <4>2. is <=> was
        BY <1>0, <1>1, <3>1, <3>3
      <4>3. TellInv(x, is, published[g])
        BY <2>1, <4>2, TellsSame
      <4>4. CASE g # e
        <5>1. published'[g] = published[g]
          BY <1>0, <1>1, <3>1, <4>4
        <5>2. QED BY <2>1, <4>1, <4>3, <5>1
      <4>5. CASE g = e
        <5>1. ~is
          BY <3>3, <4>2, <4>5
        <5>2. TellInv(x, is, published'[g])
          BY <4>3, <5>1 DEF TellInv
        <5>3. QED BY <2>1, <4>1, <5>2
      <4>6. QED BY <4>4, <4>5
    <3>4. QED BY <3>2, <3>3
  <2>4. QED BY <2>2, <2>3
<1>9. Tellings'
  BY <1>8 DEF Tellings, Of
<1>10. QED BY <1>4, <1>5, <1>7, <1>9

LEMMA PublishKeeps ==
  ASSUME Inv, NEW e \in Executions, Publish(e)
  PROVE  Inv'
<1> DEFINE n == sequence + 1
           h == [entries EXCEPT ![e] = Push(@, n)]
           f == Frame(n, "log")
<1>0. /\ sequence \in Nat /\ n \in Nat /\ entries \in [Executions -> Seq(Nat)]
      /\ terminal \in [Executions -> AnyFrame] /\ published \in [Executions -> SUBSET Nat]
      /\ ended \in [Executions -> BOOLEAN]
  BY DEF Inv, StateTypes
<1>1. /\ ~ended[e] /\ Trimmed(MoveToEnd(order, e), h, terminal, subscribers)
      /\ Announce(e, f) /\ ended' = ended
  BY DEF Publish
<1>2. f \in AnyFrame /\ f.id = n
  BY <1>0, FrameFields DEF Events
<1>3. HistoryInv(entries[e], published[e], terminal[e], FALSE, sequence)
  <2>1. ended[e] = FALSE
    BY <1>0, <1>1
  <2>2. QED BY <2>1 DEF Inv, Histories
<1>4. Push(entries[e], n) \in Seq(Nat) /\ HistoryInv(Push(entries[e], n), published[e] \cup {n},
                                                     terminal[e], FALSE, n)
  BY <1>0, <1>3, HistoryGrows
<1> HIDE DEF f
<1>5. h \in [Executions -> Seq(Nat)]
  BY <1>0, <1>4
<1>6. sequence' = n /\ published' = [published EXCEPT ![e] = @ \cup {n}]
  BY <1>1, <1>2 DEF Announce
<1> HIDE DEF h
<1>7. /\ Kept(h, terminal) /\ entries' \in [Executions -> Seq(Nat)]
      /\ terminal' \in [Executions -> AnyFrame]
  BY <1>0, <1>1, <1>5, TrimmedKeeps
<1>8. ASSUME NEW g \in Executions
      PROVE  HistoryInv(entries'[g], published'[g], terminal'[g], ended[g], n)
  <2>1. HistoryInv(h[g], published'[g], terminal[g], ended[g], n)
    <3>1. CASE g = e
      <4>1. h[g] = Push(entries[e], n) /\ published'[g] = published[e] \cup {n} /\ ended[g] = FALSE
        BY <1>0, <1>1, <1>6, <3>1 DEF h
      <4>2. QED BY <1>4, <3>1, <4>1
    <3>2. CASE g # e
      <4>1. h[g] = entries[g] /\ published'[g] = published[g]
        BY <1>0, <1>6, <3>2 DEF h
      <4>2. HistoryInv(entries[g], published[g], terminal[g], ended[g], sequence)
        BY DEF Inv, Histories
      <4>3. HistoryInv(entries[g], published[g], terminal[g], ended[g], n)
        BY <1>0, <4>2, HistoryWaits
      <4>4. QED BY <4>1, <4>3
    <3>3. QED BY <3>1, <3>2
  <2>2. QED BY <1>7, <2>1, HistoryEvicted DEF Kept
<1>9. Histories'
  BY <1>1, <1>6, <1>8 DEF Histories
<1>10. StateTypes' /\ Registered' /\ Streams' /\ Tellings'
  <2>1. \A g \in Executions : terminal'[g] = terminal[g] \/ terminal'[g] = NoFrame
    BY <1>7 DEF Kept
  <2>2. QED BY <1>0, <1>1, <1>2, <1>7, <2>1, Announced
<1>11. QED BY <1>9, <1>10 DEF Inv

LEMMA TerminalKeeps ==
  ASSUME Inv, NEW e \in Executions, HandleTerminal(e)
  PROVE  Inv'
<1> DEFINE n == sequence + 1
<1>0. /\ sequence \in Nat /\ n \in Nat /\ entries \in [Executions -> Seq(Nat)]
      /\ terminal \in [Executions -> AnyFrame] /\ published \in [Executions -> SUBSET Nat]
      /\ ended \in [Executions -> BOOLEAN]
  BY DEF Inv, StateTypes
<1>1. PICK event \in Endings :
        /\ Trimmed(MoveToEnd(order, e), entries, [terminal EXCEPT ![e] = Frame(n, event)], subscribers)
        /\ Announce(e, Frame(n, event))
  BY DEF HandleTerminal
<1> DEFINE f == Frame(n, event)
           t == [terminal EXCEPT ![e] = f]
<1>2. ~ended[e] /\ ended' = [ended EXCEPT ![e] = TRUE]
  BY DEF HandleTerminal
<1>3. f \in AnyFrame /\ f.id = n
  BY <1>0, FrameFields DEF Events, Endings
<1>4. Trimmed(MoveToEnd(order, e), entries, t, subscribers) /\ Announce(e, f)
  BY <1>1
<1> HIDE DEF f
<1>5. HistoryInv(entries[e], published[e] \cup {n}, f, TRUE, n)
  <2>1. ended[e] = FALSE
    BY <1>0, <1>2
  <2>2. HistoryInv(entries[e], published[e], terminal[e], FALSE, sequence)
    BY <2>1 DEF Inv, Histories
  <2>3. QED BY <1>0, <1>3, <2>2, HistoryEnds
<1>6. t \in [Executions -> AnyFrame]
  BY <1>0, <1>3
<1>7. sequence' = n /\ published' = [published EXCEPT ![e] = @ \cup {n}]
  BY <1>3, <1>4 DEF Announce
<1> HIDE DEF t
<1>8. /\ Kept(entries, t) /\ entries' \in [Executions -> Seq(Nat)]
      /\ terminal' \in [Executions -> AnyFrame]
  BY <1>0, <1>4, <1>6, TrimmedKeeps
<1>9. ASSUME NEW g \in Executions
      PROVE  HistoryInv(entries'[g], published'[g], terminal'[g], ended'[g], n)
  <2>1. HistoryInv(entries[g], published'[g], t[g], ended'[g], n)
    <3>1. CASE g = e
      <4>1. t[g] = f /\ published'[g] = published[e] \cup {n} /\ ended'[g] = TRUE
        BY <1>0, <1>2, <1>7, <3>1 DEF t
      <4>2. QED BY <1>5, <3>1, <4>1
    <3>2. CASE g # e
      <4>1. t[g] = terminal[g] /\ published'[g] = published[g] /\ ended'[g] = ended[g]
        BY <1>0, <1>2, <1>7, <3>2 DEF t
      <4>2. HistoryInv(entries[g], published[g], terminal[g], ended[g], sequence)
        BY DEF Inv, Histories
      <4>3. HistoryInv(entries[g], published[g], terminal[g], ended[g], n)
        BY <1>0, <4>2, HistoryWaits
      <4>4. QED BY <4>1, <4>3
    <3>3. QED BY <3>1, <3>2
  <2>2. QED BY <1>8, <2>1, HistoryEvicted DEF Kept
<1>10. Histories'
  BY <1>7, <1>9 DEF Histories
<1>11. StateTypes' /\ Registered' /\ Streams' /\ Tellings'
  <2>1. \A g \in Executions : \/ terminal'[g] = terminal[g] \/ terminal'[g] = NoFrame
                              \/ terminal'[g].id = sequence + 1
    <3>1. \A g \in Executions : t[g] = terminal[g] \/ t[g] = f
      BY <1>0 DEF t
    <3>2. QED BY <1>3, <1>8, <3>1 DEF Kept
  <2>2. ended' \in [Executions -> BOOLEAN]
    BY <1>0, <1>2
  <2>3. QED BY <1>3, <1>4, <1>8, <2>1, <2>2, Announced
<1>12. QED BY <1>10, <1>11 DEF Inv

LEMMA OpenKeeps ==
  ASSUME Inv, NEW r \in Readers, NEW e \in Executions, Open(r, e)
  PROVE  Inv'
<1> DEFINE y == Opened(e, entries[e], sequence)
<1>0. StateTypes /\ HistoryInv(entries[e], published[e], terminal[e], ended[e], sequence)
  BY DEF Inv, Histories
<1>1. /\ Get(e) /\ reader[r].pc = "unopened"
      /\ subscribers' = [subscribers EXCEPT ![e] = @ \cup {r}]
      /\ UNCHANGED <<sequence, published, ended>>
  BY DEF Open
<1>2. reader' = [reader EXCEPT ![r] = y]
  BY DEF Open, Opened
<1>3. /\ Kept(entries, terminal) /\ entries' \in [Executions -> Seq(Nat)]
      /\ terminal' \in [Executions -> AnyFrame]
  BY <1>0, <1>1, TrimmedKeeps DEF Get, StateTypes
<1>4. /\ y \in Stream /\ StreamInv(y, sequence, terminal'[e]) /\ y.pc = "replaying"
      /\ y.execution = e /\ y.since = sequence
  <2> DEFINE h == entries[e]
             P == published[e]
             t == terminal[e]
             over == ended[e]
             u == terminal'[e]
  <2>1. u = t \/ u = NoFrame
    BY <1>3 DEF Kept
  <2>2. h \in Seq(Nat) /\ P \in SUBSET Nat /\ t \in AnyFrame /\ sequence \in Nat
    BY <1>0 DEF StateTypes
  <2>3. HistoryInv(h, P, t, over, sequence) /\ y = Opened(e, h, sequence)
    BY <1>0
  <2> HIDE DEF h, P, t, over, u, y
  <2>4. /\ y \in Stream /\ StreamInv(y, sequence, u) /\ y.pc = "replaying" /\ y.execution = e
        /\ y.since = sequence
    BY <2>1, <2>2, <2>3, StreamOpens
  <2>5. QED BY <2>4 DEF u
<1> HIDE DEF y
<1>5. \A g \in Executions : r \notin subscribers[g]
  BY <1>1 DEF Inv, Registered, Active
<1>6. /\ subscribers' \in [Executions -> SUBSET Readers]
      /\ \A g \in Executions : \A q \in Readers \ {r} : q \in subscribers'[g] <=> q \in subscribers[g]
      /\ \A g \in Executions : r \in subscribers'[g] => g = e
      /\ r \in subscribers'[e]
  BY <1>0, <1>1, <1>5 DEF StateTypes
<1>7. TellInv(y, r \in subscribers'[e], published[e])
  <2>1. \A id \in published[e] : id <= sequence /\ id \in Nat
    BY <1>0 DEF HistoryInv, StateTypes
  <2>2. \A id \in published[e] : ~(id > y.since)
    BY <1>0, <1>4, <2>1 DEF StateTypes
  <2>3. TellInv(y, TRUE, published[e])
    BY <2>2 DEF TellInv
  <2>4. QED BY <1>6, <2>3, TellsSame
<1>8. y.pc \in Active
  BY <1>4 DEF Active
<1>9. QED BY <1>1, <1>2, <1>3, <1>4, <1>6, <1>7, <1>8, ReaderMoves

LEMMA LeaveKeeps ==
  ASSUME Inv, NEW r \in Readers, Leave(r), reader[r].pc \in Active
  PROVE  Inv'
<1> DEFINE x == reader[r]
           y == [x EXCEPT !.pc = "closed", !.replay = <<>>, !.queue = <<>>]
<1>0. StateTypes /\ x \in Stream /\ reader \in [Readers -> Stream]
  BY DEF Inv, StateTypes
<1>1. /\ subscribers' = [e \in Executions |-> subscribers[e] \ {r}]
      /\ Trimmed(order, entries, terminal, subscribers')
      /\ UNCHANGED <<sequence, published, ended>>
  BY DEF Leave
<1>2. reader' = [reader EXCEPT ![r] = y]
  BY <1>0 DEF Leave
<1>3. /\ Kept(entries, terminal) /\ entries' \in [Executions -> Seq(Nat)]
      /\ terminal' \in [Executions -> AnyFrame]
  BY <1>0, <1>1, TrimmedKeeps DEF StateTypes
<1>4. y \in Stream /\ y.pc = "closed" /\ y.execution = x.execution /\ y.sent = x.sent
  <2> DEFINE p == <<>>
             q == <<>>
  <2>1. p \in Seq(Nat) /\ q \in Seq(AnyFrame)
    BY Nothing
  <2>2. y = [x EXCEPT !.pc = "closed", !.replay = p, !.queue = q]
    OBVIOUS
  <2> HIDE DEF p, q, x, y
  <2>3. QED BY <1>0, <2>1, <2>2 DEF Stream
<1> HIDE DEF y
<1>5. StreamInv(y, sequence, terminal'[y.execution])
  <2>1. SentInOrder(x)
    BY DEF Inv, Streams, StreamInv
  <2>2. QED BY <1>4, <2>1 DEF StreamInv, SentInOrder, Listening
<1>6. TellInv(y, r \in subscribers'[y.execution], published[y.execution])
  BY <1>4 DEF TellInv, Listening
<1>7. y.execution \in Executions
  BY <1>4 DEF Inv, StateTypes, Active
<1>8. /\ subscribers' \in [Executions -> SUBSET Readers]
      /\ \A g \in Executions : \A q \in Readers \ {r} : q \in subscribers'[g] <=> q \in subscribers[g]
      /\ \A g \in Executions : r \notin subscribers'[g]
  BY <1>0, <1>1 DEF StateTypes
<1>9. QED BY <1>1, <1>2, <1>3, <1>4, <1>5, <1>6, <1>7, <1>8, ReaderMoves

(* A generator sends or skips: registrations stay.                         *)
LEMMA StreamMoves ==
  ASSUME Inv, NEW r \in Readers, NEW y \in Stream, reader[r].pc \in Active,
         reader' = [reader EXCEPT ![r] = y], y.execution = Of(r), y.pc \in Active,
         Kept(entries, terminal), entries' \in [Executions -> Seq(Nat)],
         terminal' \in [Executions -> AnyFrame],
         UNCHANGED <<subscribers, sequence, published, ended>>,
         StreamInv(y, sequence, terminal'[Of(r)]),
         TellInv(y, r \in subscribers[Of(r)], published[Of(r)])
  PROVE  Inv'
<1>1. y.execution \in Executions
  BY DEF Inv, StateTypes, Active, Of
<1>2. /\ subscribers' \in [Executions -> SUBSET Readers]
      /\ \A g \in Executions : \A q \in Readers \ {r} : q \in subscribers'[g] <=> q \in subscribers[g]
  BY DEF Inv, StateTypes
<1>3. \A g \in Executions : r \in subscribers'[g] => y.execution = g
  BY DEF Inv, Registered, Of
<1>4. QED BY <1>1, <1>2, <1>3, ReaderMoves

LEMMA KeptAll ==
  ASSUME Inv, UNCHANGED logs
  PROVE  /\ Kept(entries, terminal) /\ entries' \in [Executions -> Seq(Nat)]
         /\ terminal' \in [Executions -> AnyFrame]
BY DEF Inv, StateTypes, Kept, logs

LEMMA GeneratorKeeps ==
  ASSUME Inv, NEW r \in Readers, Replay(r) \/ ReplayDone(r) \/ Follow(r)
  PROVE  Inv'
<1> DEFINE x == reader[r]
           e == Of(r)
           t == terminal[e]
<1>0. /\ x \in Stream /\ sequence \in Nat /\ reader \in [Readers -> Stream]
      /\ StreamInv(x, sequence, t) /\ TellInv(x, r \in subscribers[e], published[e])
      /\ x.execution = e
  BY DEF Inv, StateTypes, Streams, Tellings, Of
<1>1. x.pc \in {"replaying", "following"}
  BY DEF Replay, ReplayDone, Follow
<1>2. x.pc \in Active /\ Listening(x) /\ e \in Executions
  BY <1>1 DEF Active, Listening, Inv, StateTypes, Of
<1>3. t \in AnyFrame /\ UNCHANGED <<subscribers, sequence, published, ended>>
  <2>1. t \in AnyFrame
    BY <1>2 DEF Inv, StateTypes
  <2>2. UNCHANGED <<subscribers, sequence, published, ended>>
    BY DEF Replay, ReplayDone, Follow, ReaderOnly
  <2>3. QED BY <2>1, <2>2
<1>4. CASE Replay(r)
  <2> DEFINE y == Replayed(x)
  <2>1. x.pc = "replaying" /\ x.replay # <<>> /\ UNCHANGED logs
    BY <1>4 DEF Replay
  <2>2. reader' = [reader EXCEPT ![r] = y]
    <3>1. reader' = [reader EXCEPT ![r] =
                       [Sending(r, Frame(Head(x.replay), "log")) EXCEPT !.replay = Tail(@)]]
      BY <1>4 DEF Replay
    <3>2. Sending(r, Frame(Head(x.replay), "log")) = Sent(x, Frame(Head(x.replay), "log"))
      BY DEF Sending, Sent
    <3>3. QED BY <3>1, <3>2 DEF Replayed
  <2> HIDE DEF x, e, t
  <2>4. /\ y \in Stream /\ StreamInv(y, sequence, t)
        /\ y.pc = x.pc /\ y.execution = x.execution /\ y.since = x.since /\ y.queue = x.queue
        /\ y.sent = Append(x.sent, Frame(Head(x.replay), "log"))
    BY <1>0, <1>3, <2>1, StreamReplays
  <2> HIDE DEF y
  <2>5. Frame(Head(x.replay), "log") \in AnyFrame
    <3>1. x.replay \in Seq(Nat)
      BY <1>0 DEF Stream
    <3>2. Head(x.replay) \in Nat
      BY <2>1, <3>1, Dropped
    <3>3. QED BY <3>2, FrameFields DEF Events
  <2>6. TellInv(y, r \in subscribers[e], published[e])
    BY <1>0, <1>2, <2>4, <2>5, TellsMore
  <2>7. terminal'[e] = t
    BY <2>1 DEF logs, t
  <2>8. QED BY <1>0, <1>2, <1>3, <2>1, <2>2, <2>4, <2>6, <2>7, KeptAll, StreamMoves DEF x, e
<1>5. CASE ReplayDone(r)
  <2> DEFINE y == EndedOrFollowing(x, t)
  <2>1. x.pc = "replaying" /\ Get(e)
    BY <1>5 DEF ReplayDone, Of
  <2>2. reader' = [reader EXCEPT ![r] = y]
    <3>1. reader' = [reader EXCEPT ![r] = IF t = NoFrame THEN [@ EXCEPT !.pc = "following"]
                                         ELSE [Sending(r, t) EXCEPT !.pc = "ending"]]
      BY <1>5 DEF ReplayDone, Of
    <3>2. Sending(r, t) = Sent(x, t)
      BY DEF Sending, Sent
    <3>3. QED BY <1>0, <3>1, <3>2 DEF EndedOrFollowing
  <2>3. /\ Kept(entries, terminal) /\ entries' \in [Executions -> Seq(Nat)]
        /\ terminal' \in [Executions -> AnyFrame]
    BY <2>1, TrimmedKeeps DEF Get, Inv, StateTypes
  <2> HIDE DEF x, e, t
  <2>5. /\ y \in Stream /\ StreamInv(y, sequence, terminal'[e]) /\ y.execution = x.execution
        /\ y.pc \in Active /\ y.pc # "replaying" /\ y.since = x.since /\ y.queue = x.queue
        /\ y.pc = "following" => y.sent = x.sent
    BY <1>0, <1>3, <2>1, StreamEndsOrFollows
  <2> HIDE DEF y
  <2>6. TellInv(y, r \in subscribers[e], published[e])
    <3>1. CASE y.pc = "following"
      BY <1>0, <1>2, <2>5, <3>1 DEF TellInv
    <3>2. CASE y.pc # "following"
      BY <2>5, <3>2 DEF TellInv, Listening
    <3>3. QED BY <3>1, <3>2
  <2>7. QED BY <1>0, <1>2, <1>3, <2>2, <2>3, <2>5, <2>6, StreamMoves DEF x, e
<1>6. CASE Follow(r)
  <2> DEFINE f == Head(x.queue)
             z == [Sent(x, f) EXCEPT !.pc = IF f.event \in Closing THEN "ending" ELSE @]
             y == [z EXCEPT !.queue = Tail(@)]
  <2>1. x.pc = "following" /\ x.queue # <<>> /\ UNCHANGED logs
    BY <1>6 DEF Follow
  <2>2. /\ f.id > x.lastId /\ y \in Stream /\ StreamInv(y, sequence, t) /\ y.execution = x.execution
        /\ y.pc = (IF f.event \in Closing THEN "ending" ELSE "following") /\ y.since = x.since
        /\ y.queue = Tail(x.queue) /\ y.sent = Append(x.sent, f)
    <3> HIDE DEF x, e, t
    <3>1. QED BY <1>0, <2>1, StreamFollows
  <2>3. ~Stale(r, f)
    <3>1. x.lastId \in Nat
      BY <1>0 DEF Stream
    <3>2. f.id \in Nat
      <4>1. x.queue \in Seq(AnyFrame)
        BY <1>0 DEF Stream
      <4>2. f \in AnyFrame
        BY <2>1, <4>1, Dropped
      <4>3. QED BY <4>2 DEF AnyFrame
    <3>3. QED BY <2>2, <3>1, <3>2 DEF Stale
  <2>4. reader' = [reader EXCEPT ![r] = y]
    <3>1. reader' = [reader EXCEPT ![r] =
             [(IF Stale(r, f) THEN reader[r]
               ELSE [Sending(r, f) EXCEPT !.pc = IF f.event \in Closing THEN "ending" ELSE @])
                EXCEPT !.queue = Tail(@)]]
      BY <1>6 DEF Follow
    <3>2. Sending(r, f) = Sent(x, f)
      BY DEF Sending, Sent
    <3> HIDE DEF f
    <3>3. QED BY <2>3, <3>1, <3>2
  <2> HIDE DEF x, e, t, z, y
  <2>5. TellInv(y, r \in subscribers[e], published[e])
    BY <1>0, <2>1, <2>2, TellsHead
  <2>6. y.pc \in Active
    BY <2>2 DEF Active
  <2>7. terminal'[e] = t
    BY <2>1 DEF logs, t
  <2>8. QED BY <1>0, <1>2, <1>3, <2>1, <2>2, <2>4, <2>5, <2>6, <2>7, KeptAll, StreamMoves DEF x, e
<1>7. QED BY <1>4, <1>5, <1>6

LEMMA InvKept ==
  ASSUME Inv, [Next]_vars
  PROVE  Inv'
<1>1. CASE UNCHANGED vars
  BY <1>1 DEF vars, logs, Inv, StateTypes, Registered, Histories, Streams, Tellings, Of
<1>2. ASSUME NEW e \in Executions, Publish(e) \/ HandleTerminal(e) \/ Read(e)
      PROVE  Inv'
  <2>1. CASE Read(e)
    BY <2>1, TablesMove DEF Read, Get
  <2>2. QED BY <1>2, <2>1, PublishKeeps, TerminalKeeps
<1>3. ASSUME NEW r \in Readers, ReaderStep(r) \/ Disconnect(r)
      PROVE  Inv'
  <2>1. CASE Close(r) \/ Disconnect(r)
    <3>1. Leave(r) /\ reader[r].pc \in Active
      BY <2>1 DEF Close, Disconnect, Active
    <3>2. QED BY <3>1, LeaveKeeps
  <2>2. QED BY <1>3, <2>1, GeneratorKeeps DEF ReaderStep
<1>4. QED BY <1>1, <1>2, <1>3, OpenKeeps DEF Next

LEMMA InvInitially == Init => Inv
<1> SUFFICES ASSUME Init
             PROVE  Inv
  OBVIOUS
<1>1. /\ Unopened.pc = "unopened" /\ Unopened.sent = <<>> /\ Unopened \in Stream
  <2> DEFINE z == <<>>
             e == Unopened.execution
  <2>1. z \in Seq(AnyFrame) /\ z \in Seq(Nat)
    BY Nothing
  <2>2. Unopened = [pc |-> "unopened", execution |-> e, replay |-> z, lastId |-> 0, queue |-> z,
                    sent |-> z, since |-> 0]
    BY DEF Unopened
  <2>3. e \in Executions \cup {Unopened.execution}
    OBVIOUS
  <2> HIDE DEF z, e
  <2>4. Unopened.pc = "unopened" /\ Unopened.sent = z
    BY ONLY <2>2
  <2>5. [pc |-> "unopened", execution |-> e, replay |-> z, lastId |-> 0, queue |-> z,
         sent |-> z, since |-> 0] \in Stream
    BY ONLY <2>1, <2>3, 0 \in Nat DEF Stream
  <2>6. QED BY <2>2, <2>4, <2>5 DEF z
<1>2. <<>> \in Seq(Nat) /\ NoFrame \in AnyFrame /\ Len(<<>>) = 0
  BY Nothing, NoFrameFields
<1>3. StateTypes
  BY <1>1, <1>2 DEF Init, StateTypes
<1>4. Registered
  BY DEF Init, Registered
<1>5. HistoryInv(<<>>, {}, NoFrame, FALSE, 0)
  BY <1>2 DEF HistoryInv
<1>6. Histories
  BY <1>5 DEF Init, Histories
<1>7. \A r \in Readers : reader[r].pc = "unopened" /\ reader[r].sent = <<>>
  BY <1>1 DEF Init
<1>8. Streams
  BY <1>2, <1>7 DEF Streams, StreamInv, SentInOrder, Listening
<1>9. Tellings
  BY <1>7 DEF Tellings, TellInv, Listening
<1>10. QED BY <1>3, <1>4, <1>6, <1>8, <1>9 DEF Inv

LEMMA InvAlways == Spec => []Inv
<1>1. QED BY InvInitially, InvKept, PTL DEF Spec

(* The frames of a stream have strictly increasing ids, so none is sent    *)
(* twice, whether it came from the history or from the queue, for any      *)
(* sizes of both and any number of streams and executions.                 *)
THEOREM StreamsOrdered == Spec => []FramesOrdered
<1>1. Inv => FramesOrdered
  BY DEF Inv, Streams, StreamInv, SentInOrder, FramesOrdered
<1>2. QED BY <1>1, InvAlways, PTL

(* A registered stream has sent, or has in its queue, all that was         *)
(* published since it was opened.                                          *)
THEOREM StreamsComplete == Spec => []NothingMissed
<1>1. ASSUME Inv, NEW r \in Readers, reader[r].pc \in {"replaying", "following"}, ~Kicked(r),
             NEW id \in published[reader[r].execution], id > reader[r].since
      PROVE  id \in SentIds(r) \cup QueuedIds(r)
  <2>1. Listening(reader[r]) /\ r \in subscribers[Of(r)]
    BY <1>1 DEF Listening, Kicked, Of
  <2>2. TellInv(reader[r], r \in subscribers[Of(r)], published[Of(r)])
    BY <1>1 DEF Inv, Tellings
  <2>3. TellInv(reader[r], TRUE, published[Of(r)])
    BY <2>1, <2>2, TellsSame
  <2>4. QED BY <1>1, <2>1, <2>3 DEF TellInv, Of, SentIds, QueuedIds
<1>2. Inv => NothingMissed
  BY <1>1 DEF NothingMissed, Since
<1>3. QED BY <1>2, InvAlways, PTL

(* A stream that was kicked finds the overflow frame, and nothing else, in *)
(* its queue.                                                              *)
THEOREM StreamsTold == Spec => []KickedReadersAreTold
<1>1. ASSUME Inv, NEW r \in Readers, Kicked(r)
      PROVE  Len(reader[r].queue) = 1 /\ reader[r].queue[1].event = "overflow"
  <2>1. Listening(reader[r]) /\ r \notin subscribers[Of(r)]
    BY <1>1 DEF Listening, Kicked, Of
  <2>2. TellInv(reader[r], r \in subscribers[Of(r)], published[Of(r)])
    BY <1>1 DEF Inv, Tellings
  <2>3. QED BY <2>1, <2>2 DEF TellInv
<1>2. Inv => KickedReadersAreTold
  BY <1>1 DEF KickedReadersAreTold
<1>3. QED BY <1>2, InvAlways, PTL

(* A retained history has no hole: it holds the latest entries of its      *)
(* execution, however often it was evicted and created again.              *)
THEOREM HistoriesUnbroken == Spec => []HistoryUnbroken
<1>1. ASSUME Inv, NEW e \in Executions, NEW i \in Ids
      PROVE  /\ i \in 1..Len(entries[e]) => entries[e][i] \in published[e]
             /\ i \in 2..Len(entries[e]) => entries[e][i - 1] < entries[e][i]
             /\ i \in LogIds(e) /\ entries[e] # <<>> /\ i > entries[e][1] =>
                  \E j \in 1..Len(entries[e]) : entries[e][j] = i
  <2>1. HistoryInv(entries[e], published[e], terminal[e], ended[e], sequence)
    BY <1>1 DEF Inv, Histories
  <2>2. Len(entries[e]) \in Nat
    BY <1>1 DEF Inv, StateTypes
  <2>3. i \in 2..Len(entries[e]) => i - 1 \in 1..Len(entries[e]) /\ i \in 1..Len(entries[e]) /\ i - 1 < i
    BY <2>2
  <2>4. QED BY <2>1, <2>3 DEF HistoryInv, LogIds
<1>2. Inv => HistoryUnbroken
  BY <1>1 DEF HistoryUnbroken
<1>3. QED BY <1>2, InvAlways, PTL
=============================================================================
