---------------------------- MODULE PlatformProofs ----------------------------
(* Theorems about Platform, for every value of its constants.              *)
EXTENDS Platform, TLAPS

(***************************************************************************)
(* What a step of the process is to each component.                        *)
(***************************************************************************)
SettingsChange ==
  SettingsStart \/ SettingsReady \/ SettingsCrash \/ SettingsRequest \/ \E c \in Clients : SettingsStep(c)

AttemptChange ==
  AttemptCrash \/ AttemptRequest \/ \E a \in Attempts : AttemptStep(a) \/ AttemptEvent(a)

ProbeChange == ProbeCrash \/ BeginProbe \/ ProbeStep \/ InterruptProbe

(* A step of the process is a step of each component, or leaves it alone.  *)
LEMMA Composed ==
  ASSUME [Next]_vars
  PROVE  /\ SettingsChange \/ UNCHANGED settingsVars
         /\ AttemptChange \/ UNCHANGED attemptVars
         /\ ProbeChange \/ UNCHANGED probe
<1>1. CASE Create BY <1>1 DEF Create, SettingsChange, probeVars
<1>2. CASE Serve BY <1>2 DEF Serve, SettingsChange, probeVars
<1>3. CASE Crash BY <1>3 DEF Crash, SettingsChange, AttemptChange, ProbeChange
<1>4. CASE ByHand BY <1>4 DEF ByHand, probeVars
<1>5. CASE Request BY <1>5 DEF Request, SettingsChange, AttemptChange, ProbeChange, probeVars
<1>6. CASE \E c \in Clients : SettingsMoves(c) \/ SourceMoves(c)
  BY <1>6 DEF SettingsMoves, SourceMoves, SettingsChange, probeVars
<1>7. CASE \E c \in Operators : PackageMoves(c)
  BY <1>7 DEF PackageMoves, probeVars
<1>8. CASE \E a \in Attempts : AttemptMoves(a) \/ AttemptEvents(a)
  BY <1>8 DEF AttemptMoves, AttemptEvents, AttemptChange, probeVars
<1>9. CASE ProbeMoves \/ ProbeEvents
  BY <1>9 DEF ProbeMoves, ProbeEvents, ProbeChange
<1>10. CASE UNCHANGED vars BY <1>10 DEF vars, probeVars
<1> QED BY <1>1, <1>2, <1>3, <1>4, <1>5, <1>6, <1>7, <1>8, <1>9, <1>10 DEF Next

(***************************************************************************)
(* The probe.                                                              *)
(***************************************************************************)
Outcomes == {"none", "ok", "fail", "escapes", "interrupted"}
Verdicts == {"ok", "fail"}

Handles  == {"session", "client", "engine", "connection", "channel"}

ProbeRecord ==
  [pc : {"idle", "checking", "releasing", "over"}, kind : Kinds \cup {"HTTP"}, held : Seq(Handles),
   raised : {"yes", "no"}, outcome : Outcomes, results : Seq(Verdicts),
   verdict : Outcomes, interrupts : 0..MaxInterrupts]

(* What the properties rest on while a check is under way: there is a      *)
(* target left and no verdict yet, and an interruption that is not the     *)
(* outcome was replaced by the exception of a close.                       *)
UnderWay ==
  probe.pc \in {"checking", "releasing"} =>
    /\ Len(probe.results) < Targets
    /\ probe.outcome # "interrupted" /\ probe.interrupts > 0 => probe.raised = "yes"

Waiting == probe.pc = "checking" => probe.outcome = "none"
Pending == probe.pc # "over" => probe.verdict = "none"

ProbeInv ==
  /\ probe \in ProbeRecord
  /\ Len(probe.results) <= Targets
  /\ UnderWay /\ Waiting /\ Pending
  /\ NothingLeftOpen /\ VerdictEarned

LEMMA ShortSequences ==
  ASSUME NEW S, NEW x \in S, NEW y \in S
  PROVE  <<x>> \in Seq(S) /\ <<x, y>> \in Seq(S)
OBVIOUS

(* What the tables of the module hold for the kinds a probe may have.      *)
LEMMA ResourceTypes ==
  \A k \in Kinds \cup {"HTTP"} : Resources[k] \in Seq(Handles) /\ Caught(k) \subseteq {"fail", "escapes"}
<1>1. DOMAIN Resources = {"HTTP", "Redis", "MySQL", "PostgreSQL", "RabbitMQ", "MongoDB"}
  BY DEF Resources
<1>2. /\ Resources["HTTP"] = <<"session">> /\ Resources["Redis"] = <<"client">>
      /\ Resources["MySQL"] = <<"engine", "connection">> /\ Resources["PostgreSQL"] = <<"connection">>
      /\ Resources["RabbitMQ"] = <<"connection", "channel">> /\ Resources["MongoDB"] = <<"client">>
  BY DEF Resources
<1>3. \A x, y \in Handles : <<x>> \in Seq(Handles) /\ <<x, y>> \in Seq(Handles)
  BY ShortSequences
<1>4. /\ Resources["HTTP"] \in Seq(Handles) /\ Resources["Redis"] \in Seq(Handles)
      /\ Resources["MySQL"] \in Seq(Handles) /\ Resources["PostgreSQL"] \in Seq(Handles)
      /\ Resources["RabbitMQ"] \in Seq(Handles) /\ Resources["MongoDB"] \in Seq(Handles)
  <2>1. /\ "session" \in Handles /\ "client" \in Handles /\ "engine" \in Handles
        /\ "connection" \in Handles /\ "channel" \in Handles
    BY DEF Handles
  <2>2. /\ <<"session">> \in Seq(Handles) /\ <<"client">> \in Seq(Handles)
        /\ <<"connection">> \in Seq(Handles)
    BY <1>3, <2>1, Zenon
  <2>3. /\ <<"engine", "connection">> \in Seq(Handles) /\ <<"connection", "channel">> \in Seq(Handles)
    BY <1>3, <2>1, Zenon
  <2> QED BY <1>2, <2>2, <2>3, Zenon
<1>5. \A k \in DOMAIN Resources : Resources[k] \in Seq(Handles)
  <2> SUFFICES ASSUME NEW k \in DOMAIN Resources PROVE Resources[k] \in Seq(Handles)
    OBVIOUS
  <2> HIDE DEF Resources
  <2> QED BY <1>1, <1>4
<1> QED BY <1>1, <1>5, ProbeOK DEF Caught

LEMMA FrontType ==
  ASSUME NEW S, NEW s \in Seq(S), s # <<>>
  PROVE  Front(s) \in Seq(S)
BY DEF Front

LEMMA ProbeInitially == ProbeInit => ProbeInv
BY ProbeOK DEF ProbeInit, ProbeInv, ProbeIdle, ProbeRecord, UnderWay, Waiting, Pending, NothingLeftOpen,
               VerdictEarned, Outcomes, Verdicts

LEMMA ProbeKept ==
  ASSUME ProbeInv, ProbeChange \/ UNCHANGED probe
  PROVE  ProbeInv'
<1> USE ProbeOK DEF ProbeInv, Outcomes, Verdicts, UnderWay, Waiting, Pending, NothingLeftOpen, VerdictEarned
<1>1. CASE ProbeCrash BY <1>1 DEF ProbeCrash, ProbeIdle, ProbeRecord
<1>2. CASE BeginProbe
  <2>1. PICK k \in Kinds : probe' = [ProbeIdle EXCEPT !.pc = "checking", !.kind = k]
    BY <1>2 DEF BeginProbe
  <2>2. ProbeIdle \in ProbeRecord BY DEF ProbeIdle, ProbeRecord
  <2>3. probe' \in ProbeRecord BY <2>1, <2>2 DEF ProbeRecord
  <2> QED BY <2>1, <2>3 DEF ProbeIdle
<1>3. CASE AcquireResource
  <2>1. Needed \in Seq(Handles) BY ResourceTypes DEF Needed, ProbeRecord
  <2>2. Needed[Len(probe.held) + 1] \in Handles BY <1>3, <2>1 DEF AcquireResource, ProbeRecord
  <2>3. Append(probe.held, Needed[Len(probe.held) + 1]) \in Seq(Handles) BY <2>2 DEF ProbeRecord
  <2>4. probe' \in ProbeRecord BY <1>3, <2>3 DEF AcquireResource, ProbeRecord
  <2> QED BY <1>3, <2>4 DEF AcquireResource, ProbeRecord
<1>4. CASE AcquireFails BY <1>4, ResourceTypes DEF AcquireFails, Releases, ProbeRecord
<1>5. CASE Answers BY <1>5 DEF Answers, Releases, ProbeRecord
<1>6. CASE UseFails BY <1>6, ResourceTypes DEF UseFails, Releases, ProbeRecord
<1>7. CASE ReleaseResource
  <2>1. Front(probe.held) \in Seq(Handles) BY <1>7, FrontType DEF ReleaseResource, ProbeRecord
  <2>2. CASE probe' = [probe EXCEPT !.held = Front(@)]
    BY <1>7, <2>1, <2>2 DEF ReleaseResource, ProbeRecord
  <2>3. ASSUME NEW outcome \in {"fail", "escapes"},
               probe' = [probe EXCEPT !.held = Front(@), !.pc = AfterRaise, !.raised = "yes", !.outcome = outcome]
        PROVE  ProbeInv'
    BY <1>7, <2>1, <2>3 DEF ReleaseResource, ProbeRecord, AfterRaise
  <2> QED BY <1>7, <2>2, <2>3, ResourceTypes DEF ReleaseResource, ProbeRecord
<1>8. CASE NextTarget
  <2> DEFINE results == Append(probe.results, probe.outcome)
  <2>1. /\ probe.pc = "releasing" /\ probe.held = <<>> /\ probe.outcome \in Verdicts
        /\ probe.results \in Seq(Verdicts) /\ Len(probe.results) < Targets
    BY <1>8 DEF NextTarget, ProbeRecord
  <2>2. results \in Seq(Verdicts) /\ Len(results) = Len(probe.results) + 1 /\ Len(results) \in Nat
    BY <2>1
  <2>3. CASE Len(results) = Targets
    <3>1. probe' = [probe EXCEPT !.pc = "over", !.results = results, !.outcome = "none",
                      !.verdict = IF \A i \in 1..Len(results) : results[i] = "ok" THEN "ok" ELSE "fail"]
      BY <1>8, <2>3 DEF NextTarget, AfterTarget
    <3>2. probe' \in ProbeRecord BY <2>2, <3>1 DEF ProbeRecord
    <3> HIDE DEF results
    <3> QED BY <2>1, <2>2, <2>3, <3>1, <3>2 DEF ProbeRecord
  <2>4. CASE Len(results) # Targets
    <3>1. probe' = [probe EXCEPT !.pc = "checking", !.results = results, !.outcome = "none", !.verdict = "none"]
      BY <1>8, <2>4 DEF NextTarget, AfterTarget
    <3>2. probe' \in ProbeRecord BY <2>2, <3>1 DEF ProbeRecord
    <3> HIDE DEF results
    <3> QED BY <2>1, <2>2, <2>4, <3>1, <3>2 DEF ProbeRecord
  <2> QED BY <2>3, <2>4
<1>9. CASE ProbeRaises BY <1>9 DEF ProbeRaises, ProbeRecord
<1>10. CASE InterruptProbe
  <2>1. CASE /\ probe.interrupts < MaxInterrupts /\ probe.pc = "checking"
             /\ probe' = [probe EXCEPT !.pc = "releasing", !.outcome = "interrupted", !.interrupts = @ + 1]
    <3>1. probe.interrupts + 1 \in 0..MaxInterrupts BY <2>1 DEF ProbeRecord
    <3>2. probe' \in ProbeRecord BY <2>1, <3>1 DEF ProbeRecord
    <3> QED BY <2>1, <3>2 DEF ProbeRecord
  <2>2. CASE /\ probe.interrupts < MaxInterrupts /\ probe.pc = "releasing" /\ probe.held # <<>>
             /\ probe' = [probe EXCEPT !.held = Front(@), !.outcome = "interrupted", !.interrupts = @ + 1]
    <3>1. Front(probe.held) \in Seq(Handles) BY <2>2, FrontType DEF ProbeRecord
    <3>2. probe.interrupts + 1 \in 0..MaxInterrupts BY <2>2 DEF ProbeRecord
    <3>3. probe' \in ProbeRecord BY <2>2, <3>1, <3>2 DEF ProbeRecord
    <3> QED BY <2>2, <3>3 DEF ProbeRecord
  <2> QED BY <1>10, <2>1, <2>2 DEF InterruptProbe
<1>11. CASE UNCHANGED probe BY <1>11
<1> QED BY <1>1, <1>2, <1>3, <1>4, <1>5, <1>6, <1>7, <1>8, <1>9, <1>10, <1>11 DEF ProbeChange, ProbeStep

(* A start, a kill and the requests leave the probe as they should.        *)
LEMMA ProbeAlways == Spec => []ProbeInv
<1>1. Init => ProbeInv BY ProbeInitially DEF Init
<1>2. ProbeInv /\ [Next]_vars => ProbeInv' BY Composed, ProbeKept
<1> QED BY <1>1, <1>2, PTL DEF Spec

(* However many targets a probe has and however often it is interrupted,   *)
(* it ends with everything it acquired released.                           *)
THEOREM ProbeReleases == Spec => []NothingLeftOpen
<1>1. ProbeInv => NothingLeftOpen BY DEF ProbeInv
<1> QED BY <1>1, ProbeAlways, PTL

(* A probe answers for all of its targets or not at all.                   *)
THEOREM ProbeAnswersForAll == Spec => []VerdictEarned
<1>1. ProbeInv => VerdictEarned BY DEF ProbeInv
<1> QED BY <1>1, ProbeAlways, PTL

(***************************************************************************)
(* The attempts.                                                           *)
(***************************************************************************)
Told == {"touching", "dispatching", "sending", "over"}

IsAttempt(r) == r = [pc |-> r.pc, status |-> r.status, policy |-> r.policy, told |-> r.told]

AttemptShape ==
  /\ attempt = [a \in Attempts |-> attempt[a]]
  /\ \A a \in Attempts : IsAttempt(attempt[a])

TableShapes ==
  /\ recorded = [a \in Attempts |-> recorded[a]]
  /\ session = [a \in Attempts |-> session[a]]

(* The attempt is now one with these fields, and the others are as before. *)
AttemptBecomes(a, pc, status, policy, told) ==
  /\ AttemptShape'
  /\ attempt'[a].pc = pc /\ attempt'[a].status = status
  /\ attempt'[a].policy = policy /\ attempt'[a].told = told
  /\ \A b \in Attempts \ {a} : attempt'[b] = attempt[b]

LEMMA StillAttempt ==
  ASSUME NEW r, IsAttempt(r), NEW s, NEW pc, NEW other, NEW told,
         \/ s = [r EXCEPT !.pc = pc, !.status = other]
         \/ s = [r EXCEPT !.pc = pc, !.told = told]
         \/ s = [r EXCEPT !.told = told, !.pc = pc]
         \/ s = [r EXCEPT !.policy = other, !.pc = pc, !.told = told]
  PROVE  IsAttempt(s)
<1>1. CASE s = [r EXCEPT !.pc = pc, !.status = other] BY <1>1 DEF IsAttempt
<1>2. CASE s = [r EXCEPT !.pc = pc, !.told = told] BY <1>2 DEF IsAttempt
<1>3. CASE s = [r EXCEPT !.told = told, !.pc = pc] BY <1>3 DEF IsAttempt
<1>4. CASE s = [r EXCEPT !.policy = other, !.pc = pc, !.told = told] BY <1>4 DEF IsAttempt
<1> QED BY <1>1, <1>2, <1>3, <1>4

LEMMA ReplacedBecomes ==
  ASSUME AttemptShape, NEW a \in Attempts, NEW r, IsAttempt(r), attempt' = [attempt EXCEPT ![a] = r]
  PROVE  AttemptBecomes(a, r.pc, r.status, r.policy, r.told)
BY DEF AttemptShape, AttemptBecomes

LEMMA MovesBecomes ==
  ASSUME AttemptShape, NEW a \in Attempts, NEW pc, Moves(a, pc)
  PROVE  AttemptBecomes(a, pc, attempt[a].status, attempt[a].policy, attempt[a].told)
<1> DEFINE r == [attempt[a] EXCEPT !.pc = pc]
<1>1. attempt' = [attempt EXCEPT ![a] = r] BY DEF Moves
<1>2. IsAttempt(r) BY DEF AttemptShape, IsAttempt
<1>3. r.pc = pc /\ r.status = attempt[a].status /\ r.policy = attempt[a].policy /\ r.told = attempt[a].told
  BY DEF AttemptShape, IsAttempt
<1> HIDE DEF r
<1> QED BY <1>1, <1>2, <1>3, ReplacedBecomes

LEMMA TurnsBecomes ==
  ASSUME AttemptShape, NEW a \in Attempts, NEW pc, NEW status, Turns(a, pc, status)
  PROVE  AttemptBecomes(a, pc, status, attempt[a].policy, attempt[a].told)
<1> DEFINE r == [attempt[a] EXCEPT !.pc = pc, !.status = status]
<1>1. attempt' = [attempt EXCEPT ![a] = r] BY DEF Turns
<1>2. IsAttempt(r) BY StillAttempt DEF AttemptShape
<1>3. r.pc = pc /\ r.status = status /\ r.policy = attempt[a].policy /\ r.told = attempt[a].told
  BY DEF AttemptShape, IsAttempt
<1> HIDE DEF r
<1> QED BY <1>1, <1>2, <1>3, ReplacedBecomes

LEMMA ToldBecomes ==
  ASSUME AttemptShape, NEW a \in Attempts, NEW pc, NEW told,
         attempt' = [attempt EXCEPT ![a] = [@ EXCEPT !.told = told, !.pc = pc]]
  PROVE  AttemptBecomes(a, pc, attempt[a].status, attempt[a].policy, told)
<1> DEFINE r == [attempt[a] EXCEPT !.told = told, !.pc = pc]
<1>1. attempt' = [attempt EXCEPT ![a] = r] OBVIOUS
<1>2. IsAttempt(r) BY StillAttempt DEF AttemptShape
<1>3. r.pc = pc /\ r.status = attempt[a].status /\ r.policy = attempt[a].policy /\ r.told = told
  BY DEF AttemptShape, IsAttempt
<1> HIDE DEF r
<1> QED BY <1>1, <1>2, <1>3, ReplacedBecomes

LEMMA PolicyBecomes ==
  ASSUME AttemptShape, NEW a \in Attempts, NEW policy, NEW pc, NEW told,
         attempt' = [attempt EXCEPT ![a] = [@ EXCEPT !.policy = policy, !.pc = pc, !.told = told]]
  PROVE  AttemptBecomes(a, pc, attempt[a].status, policy, told)
<1> DEFINE r == [attempt[a] EXCEPT !.policy = policy, !.pc = pc, !.told = told]
<1>1. attempt' = [attempt EXCEPT ![a] = r] OBVIOUS
<1>2. IsAttempt(r) BY StillAttempt DEF AttemptShape
<1>3. r.pc = pc /\ r.status = attempt[a].status /\ r.policy = policy /\ r.told = told
  BY DEF AttemptShape, IsAttempt
<1> HIDE DEF r
<1> QED BY <1>1, <1>2, <1>3, ReplacedBecomes

(* Once a status is recorded the attempt has nothing left but its handler, *)
(* and what the handler tells is that status.                              *)
RecordedOnce ==
  \A a \in Attempts :
    /\ recorded[a] # "open" => attempt[a].pc \in Told
    /\ attempt[a].pc \in {"touching", "dispatching", "sending"} => recorded[a] = attempt[a].status
    /\ attempt[a].pc = "sending" =>
         attempt[a].policy \in Policies /\ attempt[a].status \in Strategy[attempt[a].policy]

(* A session belongs to an attempt that runs, or that left it behind.      *)
SessionsFollow ==
  \A a \in Attempts :
    /\ session[a] \in {"closing", "dropped"} => attempt[a].pc \in Told \cup {"finalizing", "cancelling"}
    /\ session[a] = "dropped" => attempt[a].pc # "finalizing"

MessagesKnown == \A m \in messages : m.attempt \in Attempts /\ m.status # "open"

AttemptInv ==
  /\ AttemptShape /\ TableShapes /\ RecordedOnce /\ SessionsFollow /\ MessagesKnown
  /\ OpenSessionsOwned /\ NotificationsTruthful

LEMMA StrategiesAskForEnds ==
  \A p \in Policies : \A s \in Strategy[p] : s # "open"
BY AttemptOK DEF Strategy, Ended

LEMMA AttemptKept ==
  ASSUME AttemptInv, AttemptChange \/ UNCHANGED attemptVars
  PROVE  AttemptInv'
<1> USE DEF AttemptInv, TableShapes, RecordedOnce, SessionsFollow, MessagesKnown, OpenSessionsOwned,
            NotificationsTruthful, Told, AttemptBecomes
<1>1. CASE AttemptCrash
  <2>1. \A a \in Attempts : attempt'[a] = IF attempt[a].pc = "idle" THEN attempt[a]
                                           ELSE [attempt[a] EXCEPT !.pc = "over", !.told = {}]
    BY <1>1 DEF AttemptCrash
  <2>2. \A a \in Attempts : /\ attempt'[a].status = attempt[a].status
                            /\ attempt'[a].pc = IF attempt[a].pc = "idle" THEN "idle" ELSE "over"
    <3> SUFFICES ASSUME NEW a \in Attempts
                 PROVE  /\ attempt'[a].status = attempt[a].status
                        /\ attempt'[a].pc = IF attempt[a].pc = "idle" THEN "idle" ELSE "over"
      OBVIOUS
    <3>1. CASE attempt[a].pc = "idle" BY <2>1, <3>1
    <3>2. CASE attempt[a].pc # "idle"
      <4>1. attempt'[a] = [attempt[a] EXCEPT !.pc = "over", !.told = {}] BY <2>1, <3>2
      <4> QED BY <4>1, <3>2 DEF AttemptShape, IsAttempt
    <3> QED BY <3>1, <3>2
  <2>3. AttemptShape'
    <3>1. ASSUME NEW a \in Attempts PROVE IsAttempt(attempt'[a])
      <4>1. CASE attempt[a].pc = "idle" BY <2>1, <4>1 DEF AttemptShape
      <4>2. CASE attempt[a].pc # "idle"
        <5>1. attempt'[a] = [attempt[a] EXCEPT !.pc = "over", !.told = {}] BY <2>1, <4>2
        <5>2. IsAttempt(attempt[a]) BY DEF AttemptShape
        <5> QED BY <5>1, <5>2 DEF IsAttempt
      <4> QED BY <4>1, <4>2
    <3>2. attempt' = [a \in Attempts |-> attempt'[a]] BY <1>1 DEF AttemptCrash
    <3> QED BY <3>1, <3>2 DEF AttemptShape
  <2>4. session' = [a \in Attempts |-> "none"] /\ UNCHANGED <<recorded, messages>>
    BY <1>1 DEF AttemptCrash
  <2> QED BY <2>2, <2>3, <2>4
<1>2. ASSUME NEW a \in Attempts, BeginAttempt(a) PROVE AttemptInv'
  BY <1>2, MovesBecomes, TurnsBecomes DEF BeginAttempt
<1>3. ASSUME NEW a \in Attempts, Connects(a) \/ ConnectFails(a) PROVE AttemptInv'
  BY <1>3, MovesBecomes, TurnsBecomes DEF Connects, ConnectFails, Session
<1>4. ASSUME NEW a \in Attempts, Runs(a) PROVE AttemptInv'
  <2>1. PICK status \in {"completed", "failed", "timeout"} : Turns(a, AfterRun(a, status), status)
    BY <1>4 DEF Runs
  <2>2. AttemptBecomes(a, AfterRun(a, status), status, attempt[a].policy, attempt[a].told)
    BY <2>1, TurnsBecomes
  <2> QED BY <1>4, <2>2 DEF Runs, AfterRun
<1>5. ASSUME NEW a \in Attempts, Closes(a) PROVE AttemptInv'
  BY <1>5, MovesBecomes DEF Closes, Session
<1>6. ASSUME NEW a \in Attempts, CloseTimesOut(a) \/ CloseRaises(a) PROVE AttemptInv'
  BY <1>6, MovesBecomes DEF CloseTimesOut, CloseRaises, Session
<1>7. ASSUME NEW a \in Attempts, Commits(a) PROVE AttemptInv'
  BY <1>7, MovesBecomes DEF Commits
<1>8. ASSUME NEW a \in Attempts, CommitFails(a) PROVE AttemptInv'
  BY <1>8, MovesBecomes DEF CommitFails, AfterFailedCommit
<1>9. ASSUME NEW a \in Attempts, Touches(a) PROVE AttemptInv'
  BY <1>9, MovesBecomes DEF Touches
<1>10. ASSUME NEW a \in Attempts, HandlerStops(a) PROVE AttemptInv'
  <2>1. attempt' = [attempt EXCEPT ![a] = [@ EXCEPT !.told = {}, !.pc = "over"]]
    <3>1. attempt' = [attempt EXCEPT ![a] = [@ EXCEPT !.pc = "over", !.told = {}]] BY <1>10 DEF HandlerStops
    <3>2. [attempt[a] EXCEPT !.pc = "over", !.told = {}] = [attempt[a] EXCEPT !.told = {}, !.pc = "over"]
      OBVIOUS
    <3> QED BY <3>1, <3>2
  <2>2. AttemptBecomes(a, "over", attempt[a].status, attempt[a].policy, {}) BY <2>1, ToldBecomes
  <2> QED BY <1>10, <2>2 DEF HandlerStops
<1>11. ASSUME NEW a \in Attempts, Dispatches(a) PROVE AttemptInv'
  <2>1. PICK policy, pc, told :
          /\ policy \in Policies /\ pc \in {"sending", "over"}
          /\ attempt' = [attempt EXCEPT ![a] = [@ EXCEPT !.policy = policy, !.pc = pc, !.told = told]]
          /\ pc = "sending" => attempt[a].status \in Strategy[policy]
    <3> DEFINE wanted(policy) == attempt[a].status \in Strategy[policy]
               enabled  == {ch \in Channels : rows[ch].enabled = "yes"}
               readable == \A ch \in enabled : rows[ch].shape = "object"
               pc(policy) == IF wanted(policy) /\ readable /\ enabled # {} THEN "sending" ELSE "over"
               told(policy) == IF wanted(policy) /\ readable
                               THEN {[channel |-> ch, config |-> ChannelConfig(ch)] : ch \in enabled} ELSE {}
    <3>1. PICK policy \in Policies :
            attempt' = [attempt EXCEPT ![a] =
                          [@ EXCEPT !.policy = policy, !.pc = pc(policy), !.told = told(policy)]]
      BY <1>11 DEF Dispatches
    <3>2. pc(policy) \in {"sending", "over"} /\ (pc(policy) = "sending" => wanted(policy)) OBVIOUS
    <3> HIDE DEF pc, told
    <3> QED BY <3>1, <3>2 DEF wanted
  <2>2. AttemptBecomes(a, pc, attempt[a].status, policy, told) BY <2>1, PolicyBecomes
  <2>3. attempt[a].pc = "dispatching" /\ UNCHANGED <<recorded, session, messages>> BY <1>11 DEF Dispatches
  <2> QED BY <2>1, <2>2, <2>3
<1>12. ASSUME NEW a \in Attempts, Delivers(a) PROVE AttemptInv'
  <2>1. PICK to \in attempt[a].told :
          /\ messages' \subseteq messages \cup
               {[attempt |-> a, channel |-> to.channel, secret |-> to.config.secret,
                 status |-> attempt[a].status, policy |-> attempt[a].policy]}
          /\ attempt' = [attempt EXCEPT ![a] =
               [@ EXCEPT !.told = attempt[a].told \ {to},
                         !.pc = IF attempt[a].told = {to} THEN "over" ELSE "sending"]]
    BY <1>12 DEF Delivers
  <2> DEFINE pc == IF attempt[a].told = {to} THEN "over" ELSE "sending"
             told == attempt[a].told \ {to}
  <2>2. attempt' = [attempt EXCEPT ![a] = [@ EXCEPT !.told = told, !.pc = pc]] BY <2>1
  <2>3. pc \in {"sending", "over"} OBVIOUS
  <2> HIDE DEF pc, told
  <2>4. AttemptBecomes(a, pc, attempt[a].status, attempt[a].policy, told) BY <2>2, ToldBecomes
  <2>5. attempt[a].pc = "sending" /\ UNCHANGED <<recorded, session>> BY <1>12 DEF Delivers
  <2>6. attempt[a].status # "open" BY <2>5, StrategiesAskForEnds
  <2> QED BY <2>1, <2>3, <2>4, <2>5, <2>6
<1>13. ASSUME NEW a \in Attempts, Cancelled(a) PROVE AttemptInv'
  <2>1. AttemptBecomes(a, "cancelling", "cancelled", attempt[a].policy, attempt[a].told)
    BY <1>13, TurnsBecomes DEF Cancelled
  <2>2. /\ \A b \in Attempts \ {a} : session'[b] = session[b]
        /\ session'[a] = IF session[a] # "open" THEN session[a]
                         ELSE IF attempt[a].pc = "closing" THEN "closing" ELSE "dropped"
        /\ session' = [b \in Attempts |-> session'[b]]
    BY <1>13 DEF Cancelled
  <2> QED BY <1>13, <2>1, <2>2 DEF Cancelled
<1>14. ASSUME NEW a \in Attempts, BackgroundCloses(a) PROVE AttemptInv'
  BY <1>14 DEF BackgroundCloses, Session, AttemptShape
<1>15. CASE UNCHANGED attemptVars BY <1>15 DEF attemptVars, AttemptShape
<1> QED
  <2> HIDE DEF AttemptInv
  <2> QED BY <1>1, <1>2, <1>3, <1>4, <1>5, <1>6, <1>7, <1>8, <1>9, <1>10, <1>11, <1>12, <1>13, <1>14, <1>15
          DEF AttemptChange, AttemptRequest, AttemptStep, AttemptEvent

LEMMA AttemptAlways == Spec => []AttemptInv
<1>1. Init => AttemptInv
  BY DEF Init, AttemptInit, AttemptIdle, AttemptInv, IsAttempt, AttemptShape, TableShapes, RecordedOnce, SessionsFollow,
         MessagesKnown, OpenSessionsOwned, NotificationsTruthful, Told
<1>2. AttemptInv /\ [Next]_vars => AttemptInv' BY Composed, AttemptKept
<1> QED BY <1>1, <1>2, PTL DEF Spec

(* With any number of attempts at once, nobody but an attempt that runs or *)
(* closes has an open session.                                             *)
THEOREM SessionsOwned == Spec => []OpenSessionsOwned
<1>1. AttemptInv => OpenSessionsOwned BY DEF AttemptInv
<1> QED BY <1>1, AttemptAlways, PTL

(* What a channel was told was recorded before, asked for by the strategy, *)
(* and never becomes untrue.                                               *)
THEOREM NotificationsStayTrue == Spec => []NotificationsTruthful
<1>1. AttemptInv => NotificationsTruthful BY DEF AttemptInv
<1> QED BY <1>1, AttemptAlways, PTL

(***************************************************************************)
(* The settings.                                                           *)
(***************************************************************************)
IsRequest(r) ==
  r = [pc |-> r.pc, key |-> r.key, value |-> r.value, seen |-> r.seen, alone |-> r.alone]

RequestShape ==
  /\ request = [c \in Clients |-> request[c]]
  /\ \A c \in Clients : IsRequest(request[c])
  /\ rows = [k \in Keys |-> rows[k]]

Hashed(secret) == secret.form \in {"none", "hash"}

(* The request that merges holds the lock, and but for the credentials the *)
(* row it merges with is the row that is stored; what it read of the       *)
(* credentials may be stale, yet is no text.                               *)
MergesUnderLock ==
  \A c \in Clients :
    /\ request[c].pc \in {"waiting", "merging"} =>
         request[c].key \in Keys /\ request[c].value \in Offered[request[c].key]
    /\ request[c].pc = "merging" =>
         /\ updates = c
         /\ request[c].key # "admin" => request[c].seen = rows[request[c].key]
         /\ request[c].key = "admin" => Hashed(request[c].seen.secret)
    /\ request[c].pc \in {"refreshing", "applying"} => request[c].key \in Refreshed
    /\ request[c].pc = "verified" => request[c].key = "admin"

(* Nobody writes settings unless the process serves.                       *)
IdleUnlessUp == process # "up" => \A c \in Clients : request[c].pc = "idle"

SettingsInv ==
  RequestShape /\ MergesUnderLock /\ IdleUnlessUp /\ PasswordIsHash /\ OnlyLoggingStopsStart

(* Request c is now r, and the others have the fields they had, alone      *)
(* excepted.                                                               *)
RequestBecomes(c, r) ==
  /\ request' = [d \in Clients |-> request'[d]]
  /\ request'[c] = r
  /\ \A d \in Clients \ {c} :
       /\ IsRequest(request'[d])
       /\ request'[d].pc = request[d].pc /\ request'[d].key = request[d].key
       /\ request'[d].value = request[d].value /\ request'[d].seen = request[d].seen

LEMMA ReplacesRequest ==
  ASSUME RequestShape, NEW c \in Clients, NEW r, request' = [request EXCEPT ![c] = r]
  PROVE  RequestBecomes(c, r)
BY DEF RequestShape, RequestBecomes

LEMMA IdleIsRequest == IsRequest(RequestIdle) /\ RequestIdle.pc = "idle"
BY DEF RequestIdle, IsRequest

(* What a PUT stores of the credentials is hashed if what it read is.      *)
LEMMA MergedIsHashed ==
  ASSUME NEW value \in Offered["admin"], NEW row, Hashed(row.secret), value.shape = "object"
  PROVE  Hashed(Merged("admin", row, value).secret)
<1>1. value \in Rows /\ value.secret \in Secrets BY SettingsOK DEF Keys, Rows
<1>2. Merged("admin", row, value).secret =
        IF value.secret = Placeholder \/ (value.secret # NoSecret /\ row.secret.form = "hash")
        THEN row.secret
        ELSE IF value.secret.form = "text" THEN Hash(value.secret.of) ELSE value.secret
  BY <1>1 DEF Merged, Rows
<1>3. value.secret = NoSecret \/ value.secret = Placeholder \/ value.secret.form \in {"text", "hash"}
  BY <1>1 DEF Secrets
<1>4. NoSecret.form = "none" /\ \A x : Hash(x).form = "hash" BY DEF NoSecret, Hash
<1> QED BY <1>2, <1>3, <1>4 DEF Hashed

(* A PUT that echoes the placeholder stores the secret it read.            *)
LEMMA MergedKeepsEchoed ==
  ASSUME NEW k \in Keys, NEW value \in Offered[k], NEW row, value.secret = Placeholder
  PROVE  value.shape = "object" /\ Merged(k, row, value).secret = row.secret
<1>1. value \in Rows BY SettingsOK
<1>2. value.shape = "object"
  <2>1. NoSecret.form = "none" /\ Placeholder.form = "placeholder" BY DEF NoSecret, Placeholder
  <2>2. value.shape = "object" \/ value.secret = NoSecret BY SettingsOK
  <2> QED BY <2>1, <2>2
<1>3. Merged(k, row, value).secret = row.secret BY <1>1 DEF Merged, Rows
<1> QED BY <1>2, <1>3

LEMMA SettingsKept ==
  ASSUME SettingsInv, SettingsChange \/ UNCHANGED settingsVars
  PROVE  SettingsInv'
<1>0. Nobody \notin Clients BY SettingsOK
<1> USE <1>0 DEF SettingsInv, MergesUnderLock, IdleUnlessUp, PasswordIsHash, OnlyLoggingStopsStart,
            RequestBecomes
<1>1. CASE SettingsStart
  <2>1. /\ rows' = [k \in Keys |-> Seeded(k)] /\ UNCHANGED <<updates, request>>
        /\ process \in {"down", "refused"} /\ process' \in {"refused", "restoring"}
        /\ process' = "refused" => ConfigureRaises(Seeded("logging").body) \/ Seeded("cdp").shape = "other"
    BY <1>1 DEF SettingsStart, Keys
  <2>2. Seeded("cdp").shape # "other" BY DEF Seeded, Defaults, Object, Keys, OtherValue, NoRow
  <2>3. Hashed(Seeded("admin").secret) BY DEF Seeded, Defaults, Object, Keys, Hash, Hashed
  <2>4. \A c \in Clients : request'[c].pc = "idle" BY <2>1
  <2> QED BY <2>1, <2>2, <2>3, <2>4 DEF RequestShape, Keys, Hashed
<1>2. CASE SettingsReady
  BY <1>2 DEF SettingsReady, RequestShape
<1>3. CASE SettingsCrash
  <2>1. /\ UNCHANGED rows /\ process' = "down"
        /\ request' = [c \in Clients |-> RequestIdle]
    BY <1>3 DEF SettingsCrash
  <2> QED BY <2>1, IdleIsRequest DEF RequestShape
<1>4. ASSUME NEW c \in Clients, NEW k \in Keys, NEW value \in Offered[k], PutArrives(c, k, value)
      PROVE  SettingsInv'
  <2> DEFINE r == [RequestIdle EXCEPT !.pc = "waiting", !.key = k, !.value = value]
  <2>1. IsRequest(r) /\ r.pc = "waiting" /\ r.key = k /\ r.value = value
    <3>1. r = [RequestIdle EXCEPT !.pc = "waiting", !.key = k, !.value = value] OBVIOUS
    <3> HIDE DEF r
    <3> QED BY <3>1, IdleIsRequest DEF IsRequest
  <2>2. request' = [request EXCEPT ![c] = r] /\ UNCHANGED <<process, rows, updates>> /\ process = "up"
    BY <1>4 DEF PutArrives
  <2> HIDE DEF r
  <2>3. RequestBecomes(c, r) BY <2>2, ReplacesRequest
  <2> QED BY <2>1, <2>2, <2>3 DEF RequestShape
<1>5. ASSUME NEW c \in Clients, PutReads(c) PROVE SettingsInv'
  <2> DEFINE k == request[c].key
             alone == IF Beside(c, k) = {} THEN "yes" ELSE "no"
             r == [request[c] EXCEPT !.pc = "merging", !.seen = rows[k], !.alone = alone]
  <2>1. /\ request[c].pc = "waiting" /\ updates = Nobody /\ updates' = c /\ UNCHANGED <<process, rows>>
        /\ request' = [d \in Clients |-> IF d = c THEN r
                                         ELSE IF d \in Beside(c, k) THEN [request[d] EXCEPT !.alone = "no"]
                                         ELSE request[d]]
    BY <1>5 DEF PutReads, LockFree
  <2>2. /\ IsRequest(r) /\ r.pc = "merging" /\ r.key = k /\ r.value = request[c].value
        /\ r.seen = rows[k]
    <3>1. IsRequest(request[c]) BY DEF RequestShape
    <3>2. r = [request[c] EXCEPT !.pc = "merging", !.seen = rows[k], !.alone = alone] OBVIOUS
    <3> HIDE DEF alone, r
    <3> QED BY <3>1, <3>2 DEF IsRequest
  <2>3. ASSUME NEW d \in Clients \ {c}
        PROVE  /\ IsRequest(request'[d])
               /\ request'[d].pc = request[d].pc /\ request'[d].key = request[d].key
               /\ request'[d].value = request[d].value /\ request'[d].seen = request[d].seen
    <3> HIDE DEF r
    <3>1. request'[d] = [request[d] EXCEPT !.alone = "no"] \/ request'[d] = request[d] BY <2>1
    <3>2. IsRequest(request[d]) BY DEF RequestShape
    <3> QED BY <3>1, <3>2 DEF IsRequest
  <2> HIDE DEF r
  <2>4. RequestBecomes(c, r) BY <2>1, <2>3
  <2>5. \A d \in Clients \ {c} : request[d].pc # "merging" BY <2>1
  <2>6. k \in Keys BY <2>1
  <2> QED BY <2>1, <2>2, <2>4, <2>5, <2>6 DEF RequestShape, Hashed
<1>6. ASSUME NEW c \in Clients, PutCommits(c) PROVE SettingsInv'
  <2> DEFINE k == request[c].key
             value == request[c].value
             row == IF value.shape = "object" THEN Merged(k, request[c].seen, value) ELSE value
             r == IF k \in Refreshed THEN [request[c] EXCEPT !.pc = "refreshing"] ELSE RequestIdle
  <2>1. /\ request[c].pc = "merging" /\ rows' = [rows EXCEPT ![k] = row] /\ updates' = Nobody
        /\ UNCHANGED process /\ request' = [request EXCEPT ![c] = r]
    BY <1>6 DEF PutCommits
  <2>2. k \in Keys /\ value \in Offered[k] /\ updates = c BY <2>1
  <2>3. IsRequest(r) /\ (r.pc = "idle" \/ (r.pc = "refreshing" /\ r.key \in Refreshed))
    <3>1. IsRequest(request[c]) BY DEF RequestShape
    <3>2. CASE k \in Refreshed
      <4>1. r = [request[c] EXCEPT !.pc = "refreshing"] BY <3>2
      <4> HIDE DEF r
      <4> QED BY <3>1, <3>2, <4>1 DEF IsRequest
    <3>3. CASE k \notin Refreshed BY <3>3, IdleIsRequest
    <3> QED BY <3>2, <3>3
  <2>4. k = "admin" => Hashed(row.secret)
    <3> SUFFICES ASSUME k = "admin" PROVE Hashed(row.secret)
      OBVIOUS
    <3>1. CASE value.shape = "object" BY <2>1, <2>2, <3>1, MergedIsHashed
    <3>2. CASE value.shape # "object"
      <4>1. value.secret = NoSecret BY <2>2, <3>2, SettingsOK
      <4>2. row = value BY <3>2
      <4>3. NoSecret.form = "none" BY DEF NoSecret
      <4> QED BY <4>1, <4>2, <4>3 DEF Hashed
    <3> QED BY <3>1, <3>2
  <2> HIDE DEF row, r
  <2>5. RequestBecomes(c, r) BY <2>1, ReplacesRequest
  <2>6. \A d \in Clients \ {c} : request[d].pc # "merging" BY <2>1
  <2>7. process = "up" BY <2>1
  <2>8. Hashed(rows'["admin"].secret) BY <2>1, <2>4 DEF RequestShape, Keys, Hashed
  <2>9. rows' = [key \in Keys |-> rows'[key]] BY <2>1 DEF RequestShape
  <2> QED BY <2>1, <2>3, <2>5, <2>6, <2>7, <2>8, <2>9 DEF RequestShape, Hashed
<1>7. ASSUME NEW c \in Clients, PutFails(c) PROVE SettingsInv'
  <2>1. /\ request[c].pc = "merging" /\ request' = [request EXCEPT ![c] = RequestIdle]
        /\ updates' = Nobody /\ UNCHANGED <<process, rows>>
    BY <1>7 DEF PutFails, AfterFailure
  <2>2. RequestBecomes(c, RequestIdle) BY <2>1, ReplacesRequest
  <2>3. \A d \in Clients \ {c} : request[d].pc # "merging" BY <2>1
  <2> QED BY <2>1, <2>2, <2>3, IdleIsRequest DEF RequestShape
<1>8. ASSUME NEW c \in Clients, RefreshReads(c) PROVE SettingsInv'
  <2>1. PICK seen : request' = [request EXCEPT ![c].seen = seen, ![c].pc = "applying"]
    BY <1>8 DEF RefreshReads
  <2> DEFINE r == [[request[c] EXCEPT !.seen = seen] EXCEPT !.pc = "applying"]
  <2>2. request[c].pc = "refreshing" /\ UNCHANGED <<process, rows, updates>> BY <1>8 DEF RefreshReads
  <2>3. request' = [request EXCEPT ![c] = r] BY <2>1 DEF RequestShape
  <2>4. IsRequest(r) /\ r.pc = "applying" /\ r.key = request[c].key
    <3>1. IsRequest(request[c]) BY DEF RequestShape
    <3>2. r = [[request[c] EXCEPT !.seen = seen] EXCEPT !.pc = "applying"] OBVIOUS
    <3> HIDE DEF r
    <3> QED BY <3>1, <3>2 DEF IsRequest
  <2> HIDE DEF r
  <2>5. RequestBecomes(c, r) BY <2>3, ReplacesRequest
  <2> QED BY <2>2, <2>4, <2>5 DEF RequestShape
<1>9. ASSUME NEW c \in Clients, RefreshApplies(c) PROVE SettingsInv'
  <2>1. /\ request[c].pc = "applying" /\ request' = [request EXCEPT ![c] = RequestIdle]
        /\ UNCHANGED <<process, rows, updates>>
    BY <1>9 DEF RefreshApplies
  <2>2. RequestBecomes(c, RequestIdle) BY <2>1, ReplacesRequest
  <2> QED BY <2>1, <2>2, IdleIsRequest DEF RequestShape
<1>10. ASSUME NEW c \in Clients, NEW old \in Passwords, ChangeVerifies(c, old) PROVE SettingsInv'
  <2> DEFINE r == [RequestIdle EXCEPT !.pc = "verified", !.key = "admin", !.seen = rows["admin"]]
  <2>1. IsRequest(r) /\ r.pc = "verified" /\ r.key = "admin"
    <3>1. r = [RequestIdle EXCEPT !.pc = "verified", !.key = "admin", !.seen = rows["admin"]] OBVIOUS
    <3> HIDE DEF r
    <3> QED BY <3>1, IdleIsRequest DEF IsRequest
  <2>2. request' = [request EXCEPT ![c] = r] /\ UNCHANGED <<process, rows, updates>> /\ process = "up"
    BY <1>10 DEF ChangeVerifies
  <2> HIDE DEF r
  <2>3. RequestBecomes(c, r) BY <2>2, ReplacesRequest
  <2> QED BY <2>1, <2>2, <2>3 DEF RequestShape
<1>11. ASSUME NEW c \in Clients, NEW new \in Passwords, ChangeCommits(c, new) PROVE SettingsInv'
  <2> DEFINE row == Object(request[c].seen.body, Hash(new), rows["admin"].enabled)
  <2>1. /\ request[c].pc = "verified" /\ request' = [request EXCEPT ![c] = RequestIdle]
        /\ rows' = [rows EXCEPT !["admin"] = row] /\ UNCHANGED <<process, updates>>
    BY <1>11 DEF ChangeCommits
  <2>2. row.secret = Hash(new) /\ Hash(new).form = "hash" BY DEF Object, Hash
  <2> HIDE DEF row
  <2>3. RequestBecomes(c, RequestIdle) BY <2>1, ReplacesRequest
  <2>4. /\ rows'["admin"] = row /\ \A k \in Keys \ {"admin"} : rows'[k] = rows[k]
        /\ rows' = [k \in Keys |-> rows'[k]]
    BY <2>1 DEF RequestShape, Keys
  <2> QED BY <2>1, <2>2, <2>3, <2>4, IdleIsRequest DEF RequestShape, Keys
<1>12. CASE UNCHANGED settingsVars BY <1>12 DEF settingsVars, RequestShape
<1> QED
  <2> HIDE DEF SettingsInv
  <2> QED BY <1>1, <1>2, <1>3, <1>4, <1>5, <1>6, <1>7, <1>8, <1>9, <1>10, <1>11, <1>12
          DEF SettingsChange, SettingsRequest, SettingsStep

LEMMA SettingsAlways == Spec => []SettingsInv
<1>1. Init => SettingsInv
  <2> SUFFICES ASSUME SettingsInit PROVE SettingsInv
    BY DEF Init
  <2>1. NoRow.secret = NoSecret /\ NoSecret.form = "none" BY DEF NoRow, Object, NoSecret
  <2>2. /\ process = "down" /\ rows = [k \in Keys |-> NoRow] /\ request = [c \in Clients |-> RequestIdle]
    BY DEF SettingsInit
  <2> QED BY <2>1, <2>2, IdleIsRequest
          DEF SettingsInv, RequestShape, MergesUnderLock, IdleUnlessUp, PasswordIsHash, OnlyLoggingStopsStart, Keys
<1>2. SettingsInv /\ [Next]_vars => SettingsInv' BY Composed, SettingsKept
<1> QED BY <1>1, <1>2, PTL DEF Spec

(* No sequence of PUTs, password changes, starts and kills ever stores a   *)
(* password as the text that was sent.                                     *)
THEOREM NoPasswordInText == Spec => []PasswordIsHash
<1>1. SettingsInv => PasswordIsHash BY DEF SettingsInv
<1> QED BY <1>1, SettingsAlways, PTL

(* Whatever the rows hold, bootstrap repairs what would refuse the start,  *)
(* the logging row excepted.                                               *)
THEOREM StartsUnlessLogging == Spec => []OnlyLoggingStopsStart
<1>1. SettingsInv => OnlyLoggingStopsStart BY DEF SettingsInv
<1> QED BY <1>1, SettingsAlways, PTL

(* The step that ends the merge of an echoed secret stores the secret that *)
(* is there: the row read under the lock is the row that is replaced.      *)
LEMMA EchoStep ==
  ASSUME SettingsInv, SettingsChange \/ UNCHANGED settingsVars,
         NEW c \in Clients, request[c].pc = "merging", request'[c].pc # "merging",
         rows'[request[c].key] # rows[request[c].key],
         request[c].value.secret = Placeholder, request[c].key # "admin"
  PROVE  rows'[request[c].key].secret = rows[request[c].key].secret
<1> DEFINE k == request[c].key
<1>1. /\ k \in Keys /\ request[c].value \in Offered[k] /\ request[c].seen = rows[k] /\ process = "up"
      /\ updates = c
  BY DEF SettingsInv, MergesUnderLock, IdleUnlessUp
<1>2. CASE PutCommits(c)
  <2>1. request[c].value.shape = "object" BY <1>1, MergedKeepsEchoed
  <2>2. rows' = [rows EXCEPT ![k] = Merged(k, request[c].seen, request[c].value)]
    BY <1>2, <2>1 DEF PutCommits
  <2>3. rows'[k] = Merged(k, rows[k], request[c].value)
    BY <1>1, <2>2 DEF SettingsInv, RequestShape
  <2> QED BY <1>1, <2>3, MergedKeepsEchoed
<1>3. ASSUME NEW d \in Clients, d # c, SettingsStep(d) PROVE FALSE
  <2>1. CASE PutReads(d)
    BY <1>1, <2>1, SettingsOK DEF PutReads, LockFree
  <2>2. CASE PutCommits(d)
    BY <1>1, <1>3, <2>2 DEF PutCommits, SettingsInv, MergesUnderLock
  <2>3. CASE PutFails(d) BY <2>3 DEF PutFails
  <2>4. CASE RefreshReads(d) BY <2>4 DEF RefreshReads
  <2>5. CASE RefreshApplies(d) BY <2>5 DEF RefreshApplies
  <2>6. ASSUME NEW new \in Passwords, ChangeCommits(d, new) PROVE FALSE
    BY <1>1, <2>6 DEF ChangeCommits, SettingsInv, RequestShape
  <2> QED BY <1>3, <2>1, <2>2, <2>3, <2>4, <2>5, <2>6 DEF SettingsStep
<1>4. ~SettingsStart BY <1>1 DEF SettingsStart
<1>5. SettingsReady \/ SettingsCrash \/ UNCHANGED settingsVars => UNCHANGED rows
  BY DEF SettingsReady, SettingsCrash, settingsVars
<1>6. SettingsRequest => UNCHANGED rows
  BY DEF SettingsRequest, PutArrives, ChangeVerifies
<1>7. ASSUME SettingsStep(c), ~PutCommits(c) PROVE FALSE
  <2>1. ~PutReads(c) /\ ~RefreshReads(c) /\ ~RefreshApplies(c)
    BY DEF PutReads, RefreshReads, RefreshApplies
  <2>2. ~PutFails(c) BY DEF PutFails
  <2>3. \A new \in Passwords : ~ChangeCommits(c, new) BY DEF ChangeCommits
  <2> QED BY <1>7, <2>1, <2>2, <2>3 DEF SettingsStep
<1> QED BY <1>2, <1>3, <1>4, <1>5, <1>6, <1>7 DEF SettingsChange

(* However many PUTs of a row come at once, one that echoes the            *)
(* placeholder never brings back a secret another one has replaced.        *)
THEOREM EchoKeepsSecret == Spec => SecretsSurviveEcho
<1> DEFINE Kept(c) ==
      LET k == request[c].key
      IN  /\ request[c].pc = "merging" /\ request'[c].pc # "merging" /\ rows'[k] # rows[k]
          /\ request[c].value.secret = Placeholder /\ k # "admin"
          => rows'[k].secret = rows[k].secret
<1>1. SettingsInv /\ [Next]_vars => [\A c \in Clients : Kept(c)]_settingsVars
  BY Composed, EchoStep
<1> QED BY <1>1, SettingsAlways, PTL DEF Spec, SecretsSurviveEcho

(***************************************************************************)
(* The browser configuration that sessions are opened with.                *)
(***************************************************************************)
Committed == {"refreshing", "applying"}
Writes(r, k) == r.pc \in {"merging"} \cup Committed /\ r.key = k

(* A request that ran alone shares its row with nobody.                    *)
AloneIsAlone ==
  \A c, d \in Clients : \A k \in Keys :
    c # d /\ Writes(request[c], k) /\ Writes(request[d], k) => request[c].alone = "no"

(* What a lone request is about to put into the cache is the row.          *)
SeenIsRow ==
  \A c \in Clients :
    LET r == request[c]
    IN  r.pc = "applying" /\ r.key = "cdp" /\ r.alone # "no" /\ r.seen.shape = "object"
          => r.seen = Redact(rows["cdp"])

(* The cache is the row, unless a request that wrote it is not done yet.   *)
CacheIsRow ==
  /\ process \in {"restoring", "up"} /\ tainted = "no" /\ rows["cdp"].shape = "object"
  /\ \A c \in Clients : ~(request[c].pc \in Committed /\ request[c].key = "cdp")
  => cache = Redact(rows["cdp"])

CacheInv == AloneIsAlone /\ SeenIsRow /\ CacheIsRow

LEMMA IdleCache ==
  ASSUME \A c \in Clients : request[c].pc = "idle"
  PROVE  AloneIsAlone /\ SeenIsRow
BY DEF AloneIsAlone, SeenIsRow, Writes, Committed

(* A request moves on without writing rows or cache, and without becoming  *)
(* a writer.                                                               *)
LEMMA CacheUntouched ==
  ASSUME CacheInv, RequestShape, NEW c \in Clients, NEW r, request' = [request EXCEPT ![c] = r],
         UNCHANGED <<process, cache, tainted>>, rows'["cdp"] = rows["cdp"],
         \/ r.pc \notin {"merging"} \cup Committed /\ request[c].pc \notin Committed
         \/ r.pc \notin {"merging"} \cup Committed /\ request[c].key # "cdp"
         \/ /\ r.key = request[c].key /\ r.alone = request[c].alone
            /\ r.pc \in Committed /\ Writes(request[c], r.key)
            /\ r.key = "cdp" => request[c].pc \in Committed
            /\ r.pc = "applying" /\ r.key = "cdp" /\ r.seen.shape = "object"
                 => r.seen = Redact(rows["cdp"])
  PROVE  CacheInv'
<1>1. request'[c] = r /\ \A d \in Clients \ {c} : request'[d] = request[d]
  BY DEF RequestShape
<1>2. AloneIsAlone'
  <2> SUFFICES ASSUME NEW a \in Clients, NEW d \in Clients, NEW k \in Keys, a # d,
                      Writes(request'[a], k), Writes(request'[d], k)
               PROVE  request'[a].alone = "no"
    BY DEF AloneIsAlone, Writes, Committed
  <2>1. Writes(request[a], k) /\ Writes(request[d], k) /\ request'[a].alone = request[a].alone
    BY <1>1 DEF Writes, Committed
  <2> QED BY <2>1 DEF CacheInv, AloneIsAlone
<1>3. SeenIsRow'
  <2> SUFFICES ASSUME NEW d \in Clients, request'[d].pc = "applying", request'[d].key = "cdp",
                      request'[d].alone # "no", request'[d].seen.shape = "object"
               PROVE  request'[d].seen = Redact(rows["cdp"])
    BY DEF SeenIsRow, Redact
  <2>1. CASE d = c BY <1>1, <2>1 DEF Committed
  <2>2. CASE d # c BY <1>1, <2>2 DEF CacheInv, SeenIsRow
  <2> QED BY <2>1, <2>2
<1>4. CacheIsRow'
  <2> SUFFICES ASSUME process \in {"restoring", "up"}, tainted = "no", rows["cdp"].shape = "object",
                      \A d \in Clients : ~(request'[d].pc \in Committed /\ request'[d].key = "cdp")
               PROVE  cache = Redact(rows["cdp"])
    BY DEF CacheIsRow, Redact, Committed
  <2>1. \A d \in Clients : ~(request[d].pc \in Committed /\ request[d].key = "cdp")
    BY <1>1
  <2> QED BY <2>1 DEF CacheInv, CacheIsRow
<1> QED BY <1>2, <1>3, <1>4 DEF CacheInv

LEMMA CacheKept ==
  ASSUME SettingsInv, CacheInv, SettingsChange \/ UNCHANGED settingsVars
  PROVE  CacheInv'
<1>0. RequestShape BY DEF SettingsInv
<1>1. CASE SettingsStart
  <2>1. /\ rows' = [k \in Keys |-> Seeded(k)] /\ UNCHANGED request
        /\ process \in {"down", "refused"}
        /\ process' = "restoring" => cache' = Redact(Seeded("cdp"))
        /\ process' \in {"refused", "restoring"}
    BY <1>1 DEF SettingsStart, Keys
  <2>2. \A c \in Clients : request'[c].pc = "idle" BY <2>1 DEF SettingsInv, IdleUnlessUp
  <2>3. rows'["cdp"] = Seeded("cdp") BY <2>1 DEF Keys
  <2>4. CacheIsRow' BY <2>1, <2>3 DEF CacheIsRow, Redact
  <2> QED BY <2>2, <2>4 DEF CacheInv, AloneIsAlone, SeenIsRow, Writes, Committed
<1>2. CASE SettingsReady
  BY <1>2 DEF SettingsReady, CacheInv, AloneIsAlone, SeenIsRow, CacheIsRow, Redact
<1>3. CASE SettingsCrash
  <2>1. process' = "down" /\ request' = [c \in Clients |-> RequestIdle] BY <1>3 DEF SettingsCrash
  <2>2. \A c \in Clients : request'[c].pc = "idle" BY <2>1, IdleIsRequest
  <2> QED BY <2>1, <2>2 DEF CacheInv, AloneIsAlone, SeenIsRow, CacheIsRow, Writes, Committed
<1>4. ASSUME NEW c \in Clients, NEW k \in Keys, NEW value \in Offered[k], PutArrives(c, k, value)
      PROVE  CacheInv'
  <2> DEFINE r == [RequestIdle EXCEPT !.pc = "waiting", !.key = k, !.value = value]
  <2>1. request' = [request EXCEPT ![c] = r] /\ UNCHANGED <<process, rows, cache, tainted>>
        /\ request[c].pc = "idle"
    BY <1>4 DEF PutArrives
  <2>2. r.pc = "waiting" BY DEF RequestIdle
  <2> HIDE DEF r
  <2> QED BY <1>0, <2>1, <2>2, CacheUntouched DEF Committed
<1>5. ASSUME NEW c \in Clients, PutReads(c) PROVE CacheInv'
  <2> DEFINE k == request[c].key
             alone == IF Beside(c, k) = {} THEN "yes" ELSE "no"
             r == [request[c] EXCEPT !.pc = "merging", !.seen = rows[k], !.alone = alone]
  <2>1. /\ request[c].pc = "waiting" /\ UNCHANGED <<process, rows, cache, tainted>>
        /\ request' = [d \in Clients |-> IF d = c THEN r
                                         ELSE IF d \in Beside(c, k) THEN [request[d] EXCEPT !.alone = "no"]
                                         ELSE request[d]]
    BY <1>5 DEF PutReads
  <2>2. r.pc = "merging" /\ r.key = k /\ r.alone = alone
    <3>1. IsRequest(request[c]) BY <1>0 DEF RequestShape
    <3>2. r = [request[c] EXCEPT !.pc = "merging", !.seen = rows[k], !.alone = alone] OBVIOUS
    <3> HIDE DEF alone, r
    <3> QED BY <3>1, <3>2 DEF IsRequest
  <2>3. ASSUME NEW d \in Clients \ {c}
        PROVE  /\ request'[d].pc = request[d].pc /\ request'[d].key = request[d].key
               /\ request'[d].seen = request[d].seen
               /\ request'[d].alone = IF Writes(request[d], k) THEN "no" ELSE request[d].alone
    <3> HIDE DEF r
    <3>1. d \in Beside(c, k) <=> Writes(request[d], k) BY DEF Beside, Writes, Committed
    <3>2. request'[d] = IF Writes(request[d], k) THEN [request[d] EXCEPT !.alone = "no"] ELSE request[d]
      BY <2>1, <3>1
    <3>3. IsRequest(request[d]) BY <1>0 DEF RequestShape
    <3> QED BY <3>2, <3>3 DEF IsRequest
  <2>4. request'[c] = r BY <2>1
  <2>5. AloneIsAlone'
    <3> SUFFICES ASSUME NEW a \in Clients, NEW d \in Clients, NEW key \in Keys, a # d,
                        Writes(request'[a], key), Writes(request'[d], key)
                 PROVE  request'[a].alone = "no"
      BY DEF AloneIsAlone, Writes, Committed
    <3>1. CASE a = c
      <4>1. key = k BY <2>2, <2>4, <3>1 DEF Writes
      <4>2. d \in Clients \ {c} /\ Writes(request[d], k) BY <2>3, <3>1, <4>1 DEF Writes
      <4>3. d \in Beside(c, k) BY <4>2 DEF Beside, Writes, Committed
      <4>4. alone = "no" BY <4>3
      <4> QED BY <2>2, <2>4, <3>1, <4>4
    <3>2. CASE a # c /\ d = c
      <4>1. key = k BY <2>2, <2>4, <3>2 DEF Writes
      <4>2. Writes(request[a], k) BY <2>3, <3>2, <4>1 DEF Writes
      <4> QED BY <2>3, <3>2, <4>2
    <3>3. CASE a # c /\ d # c
      <4>1. Writes(request[a], key) /\ Writes(request[d], key) BY <2>3, <3>3 DEF Writes
      <4>2. request[a].alone = "no" BY <4>1 DEF CacheInv, AloneIsAlone
      <4> QED BY <2>3, <3>3, <4>2
    <3> QED BY <3>1, <3>2, <3>3
  <2> HIDE DEF r, alone
  <2>6. SeenIsRow'
    <3> SUFFICES ASSUME NEW d \in Clients, request'[d].pc = "applying", request'[d].key = "cdp",
                        request'[d].alone # "no", request'[d].seen.shape = "object"
                 PROVE  request'[d].seen = Redact(rows["cdp"])
      BY <2>1 DEF SeenIsRow, Redact
    <3>1. d # c BY <2>2, <2>4
    <3>2. /\ request[d].pc = "applying" /\ request[d].key = "cdp" /\ request[d].alone # "no"
          /\ request[d].seen.shape = "object" /\ request'[d].seen = request[d].seen
      BY <2>3, <3>1
    <3> QED BY <3>2 DEF CacheInv, SeenIsRow
  <2>7. CacheIsRow'
    <3> SUFFICES ASSUME process \in {"restoring", "up"}, tainted = "no", rows["cdp"].shape = "object",
                        \A d \in Clients : ~(request'[d].pc \in Committed /\ request'[d].key = "cdp")
                 PROVE  cache = Redact(rows["cdp"])
      BY <2>1 DEF CacheIsRow, Redact, Committed
    <3>1. \A d \in Clients : ~(request[d].pc \in Committed /\ request[d].key = "cdp")
      BY <2>1, <2>3 DEF Committed
    <3> QED BY <3>1 DEF CacheInv, CacheIsRow
  <2> QED BY <2>5, <2>6, <2>7 DEF CacheInv
<1>6. ASSUME NEW c \in Clients, PutCommits(c) PROVE CacheInv'
  <2> DEFINE k == request[c].key
             r == IF k \in Refreshed THEN [request[c] EXCEPT !.pc = "refreshing"] ELSE RequestIdle
  <2>1. PICK row : /\ request[c].pc = "merging" /\ rows' = [rows EXCEPT ![k] = row]
                   /\ UNCHANGED <<process, cache, tainted>> /\ request' = [request EXCEPT ![c] = r]
    BY <1>6 DEF PutCommits
  <2>2. CASE k \in Refreshed
    <3>1. r.pc = "refreshing" /\ r.key = k /\ r.alone = request[c].alone
      <4>1. IsRequest(request[c]) BY <1>0 DEF RequestShape
      <4>2. r = [request[c] EXCEPT !.pc = "refreshing"] BY <2>2
      <4> HIDE DEF r
      <4> QED BY <4>1, <4>2 DEF IsRequest
    <3> HIDE DEF r
    <3>2. CASE k # "cdp"
      <4>1. rows'["cdp"] = rows["cdp"] BY <1>0, <2>1, <3>2 DEF RequestShape
      <4>2. Writes(request[c], k) BY <2>1 DEF Writes
      <4> QED BY <1>0, <2>1, <3>1, <3>2, <4>1, <4>2, CacheUntouched DEF Committed
    <3>3. CASE k = "cdp"
      <4>1. request'[c] = r /\ \A d \in Clients \ {c} : request'[d] = request[d]
        BY <1>0, <2>1 DEF RequestShape
      <4>2. AloneIsAlone'
        <5> SUFFICES ASSUME NEW a \in Clients, NEW d \in Clients, NEW key \in Keys, a # d,
                            Writes(request'[a], key), Writes(request'[d], key)
                     PROVE  request'[a].alone = "no"
          BY DEF AloneIsAlone, Writes, Committed
        <5>1. Writes(request[a], key) /\ Writes(request[d], key) /\ request'[a].alone = request[a].alone
          BY <2>1, <3>1, <4>1 DEF Writes
        <5> QED BY <5>1 DEF CacheInv, AloneIsAlone
      <4>3. SeenIsRow'
        <5> SUFFICES ASSUME NEW d \in Clients, request'[d].pc = "applying", request'[d].key = "cdp",
                            request'[d].alone # "no"
                     PROVE  FALSE
          BY DEF SeenIsRow
        <5>1. d # c /\ request'[d] = request[d] BY <3>1, <4>1
        <5>2. Writes(request[c], "cdp") /\ Writes(request[d], "cdp") /\ "cdp" \in Keys
          BY <2>1, <3>3, <5>1 DEF Writes, Committed, Keys
        <5> QED BY <5>1, <5>2 DEF CacheInv, AloneIsAlone
      <4>4. CacheIsRow' BY <3>1, <3>3, <4>1 DEF CacheIsRow, Committed
      <4> QED BY <4>2, <4>3, <4>4 DEF CacheInv
    <3> QED BY <3>2, <3>3
  <2>3. CASE k \notin Refreshed
    <3>1. r.pc = "idle" /\ k # "cdp" BY <2>3, IdleIsRequest DEF Refreshed
    <3>2. rows'["cdp"] = rows["cdp"] BY <1>0, <2>1, <3>1 DEF RequestShape
    <3> HIDE DEF r
    <3> QED BY <1>0, <2>1, <3>1, <3>2, CacheUntouched DEF Committed
  <2> QED BY <2>2, <2>3
<1>7. ASSUME NEW c \in Clients, PutFails(c) PROVE CacheInv'
  <2>1. /\ request[c].pc = "merging" /\ request' = [request EXCEPT ![c] = RequestIdle]
        /\ UNCHANGED <<process, rows, cache, tainted>>
    BY <1>7 DEF PutFails
  <2> QED BY <1>0, <2>1, IdleIsRequest, CacheUntouched DEF Committed
<1>8. ASSUME NEW c \in Clients, RefreshReads(c) PROVE CacheInv'
  <2>1. PICK seen \in {Redact(rows[request[c].key]), NoRow} :
          request' = [request EXCEPT ![c].seen = seen, ![c].pc = "applying"]
    BY <1>8 DEF RefreshReads
  <2> DEFINE r == [[request[c] EXCEPT !.seen = seen] EXCEPT !.pc = "applying"]
  <2>2. request[c].pc = "refreshing" /\ UNCHANGED <<process, rows, cache, tainted>>
    BY <1>8 DEF RefreshReads
  <2>3. request' = [request EXCEPT ![c] = r] BY <1>0, <2>1 DEF RequestShape
  <2>4. r.pc = "applying" /\ r.key = request[c].key /\ r.alone = request[c].alone /\ r.seen = seen
    <3>1. IsRequest(request[c]) BY <1>0 DEF RequestShape
    <3>2. r = [[request[c] EXCEPT !.seen = seen] EXCEPT !.pc = "applying"] OBVIOUS
    <3> HIDE DEF r
    <3> QED BY <3>1, <3>2 DEF IsRequest
  <2> HIDE DEF r
  <2>5. r.key = "cdp" /\ r.seen.shape = "object" => r.seen = Redact(rows["cdp"])
    <3>1. NoRow.shape = "absent" BY DEF NoRow, Object
    <3> QED BY <2>1, <2>4, <3>1
  <2>6. Writes(request[c], r.key) BY <2>2, <2>4 DEF Writes, Committed
  <2> QED BY <1>0, <2>2, <2>3, <2>4, <2>5, <2>6, CacheUntouched DEF Committed
<1>9. ASSUME NEW c \in Clients, RefreshApplies(c) PROVE CacheInv'
  <2> DEFINE seen == request[c].seen
  <2>1. /\ request[c].pc = "applying" /\ request' = [request EXCEPT ![c] = RequestIdle]
        /\ UNCHANGED <<process, rows>>
    BY <1>9 DEF RefreshApplies
  <2>2. CASE request[c].key = "logging"
    <3>1. UNCHANGED <<cache, tainted>> BY <1>9, <2>2 DEF RefreshApplies
    <3> QED BY <1>0, <2>1, <2>2, <3>1, IdleIsRequest, CacheUntouched DEF Committed
  <2>3. CASE request[c].key = "cdp"
    <3>1. /\ cache' = CacheAfter(seen)
          /\ tainted' = IF seen.shape # "object" \/ request[c].alone = "no" THEN "yes" ELSE "no"
      BY <1>9, <2>3 DEF RefreshApplies
    <3>2. request'[c] = RequestIdle /\ \A d \in Clients \ {c} : request'[d] = request[d]
      BY <1>0, <2>1 DEF RequestShape
    <3>3. AloneIsAlone'
      <4> SUFFICES ASSUME NEW a \in Clients, NEW d \in Clients, NEW key \in Keys, a # d,
                          Writes(request'[a], key), Writes(request'[d], key)
                   PROVE  request'[a].alone = "no"
        BY DEF AloneIsAlone, Writes, Committed
      <4>1. a # c /\ d # c BY <3>2, IdleIsRequest DEF Writes, Committed
      <4> QED BY <3>2, <4>1 DEF CacheInv, AloneIsAlone
    <3>4. SeenIsRow'
      <4> SUFFICES ASSUME NEW d \in Clients, request'[d].pc = "applying", request'[d].key = "cdp",
                          request'[d].alone # "no", request'[d].seen.shape = "object"
                   PROVE  request'[d].seen = Redact(rows["cdp"])
        BY <2>1 DEF SeenIsRow, Redact
      <4>1. d # c BY <3>2, IdleIsRequest
      <4> QED BY <3>2, <4>1 DEF CacheInv, SeenIsRow
    <3>5. CacheIsRow'
      <4> SUFFICES ASSUME tainted' = "no" PROVE cache' = Redact(rows["cdp"])
        BY <2>1 DEF CacheIsRow, Redact
      <4>1. seen.shape = "object" /\ request[c].alone # "no" BY <3>1
      <4>2. seen = Redact(rows["cdp"]) BY <2>1, <2>3, <4>1 DEF CacheInv, SeenIsRow
      <4> QED BY <3>1, <4>1, <4>2 DEF CacheAfter
    <3> QED BY <3>3, <3>4, <3>5 DEF CacheInv
  <2> QED BY <1>9, <2>2, <2>3 DEF RefreshApplies
<1>10. ASSUME NEW c \in Clients, NEW old \in Passwords, ChangeVerifies(c, old) PROVE CacheInv'
  <2> DEFINE r == [RequestIdle EXCEPT !.pc = "verified", !.key = "admin", !.seen = rows["admin"]]
  <2>1. request' = [request EXCEPT ![c] = r] /\ UNCHANGED <<process, rows, cache, tainted>>
        /\ request[c].pc = "idle"
    BY <1>10 DEF ChangeVerifies
  <2>2. r.pc = "verified" BY DEF RequestIdle
  <2> HIDE DEF r
  <2> QED BY <1>0, <2>1, <2>2, CacheUntouched DEF Committed
<1>11. ASSUME NEW c \in Clients, NEW new \in Passwords, ChangeCommits(c, new) PROVE CacheInv'
  <2>1. PICK row : /\ request[c].pc = "verified" /\ request' = [request EXCEPT ![c] = RequestIdle]
                   /\ rows' = [rows EXCEPT !["admin"] = row] /\ UNCHANGED <<process, cache, tainted>>
    BY <1>11 DEF ChangeCommits
  <2>2. rows'["cdp"] = rows["cdp"] BY <1>0, <2>1 DEF RequestShape
  <2> QED BY <1>0, <2>1, <2>2, IdleIsRequest, CacheUntouched DEF Committed
<1>12. CASE UNCHANGED settingsVars
  BY <1>12 DEF settingsVars, CacheInv, AloneIsAlone, SeenIsRow, CacheIsRow, Redact
<1> QED BY <1>1, <1>2, <1>3, <1>4, <1>5, <1>6, <1>7, <1>8, <1>9, <1>10, <1>11, <1>12
        DEF SettingsChange, SettingsRequest, SettingsStep

(* A PUT of the browser row that shared it with no other is live when it   *)
(* is answered, however many requests and kills surround it.               *)
THEOREM LonePutsLive == Spec => []LonePutIsLive
<1>1. Init => CacheInv
  <2> SUFFICES ASSUME SettingsInit PROVE CacheInv
    BY DEF Init
  <2>1. process = "down" /\ request = [c \in Clients |-> RequestIdle] BY DEF SettingsInit
  <2>2. \A c \in Clients : request[c].pc = "idle" BY <2>1, IdleIsRequest
  <2> QED BY <2>1, <2>2, IdleCache DEF CacheInv, CacheIsRow
<1>2. SettingsInv /\ CacheInv /\ [Next]_vars => CacheInv' BY Composed, CacheKept
<1>3. CacheInv => LonePutIsLive BY DEF CacheInv, CacheIsRow, LonePutIsLive, Committed
<1> QED BY <1>1, <1>2, <1>3, SettingsAlways, PTL DEF Spec

(***************************************************************************)
(* The secrets that reach the channels.                                    *)
(***************************************************************************)
StoredSecretsReal == \A k \in Keys : rows[k].secret # Placeholder

SecretsInv ==
  /\ StoredSecretsReal
  /\ \A a \in Attempts : \A t \in attempt[a].told : t.config.secret # Placeholder
  /\ MessagesCarrySecret

LEMMA StoredSecretsKept ==
  ASSUME SettingsInv, StoredSecretsReal, SettingsChange \/ UNCHANGED settingsVars
  PROVE  StoredSecretsReal'
<1> USE DEF StoredSecretsReal
<1>1. /\ NoSecret # Placeholder /\ \A x : Hash(x) # Placeholder
      /\ \A secret : Hashed(secret) => secret # Placeholder
  <2>1. /\ NoSecret.form = "none" /\ Placeholder.form = "placeholder" /\ \A x : Hash(x).form = "hash"
    BY DEF NoSecret, Placeholder, Hash
  <2> QED BY <2>1 DEF Hashed
<1>2. CASE SettingsStart
  <2>1. rows' = [k \in Keys |-> Seeded(k)] BY <1>2 DEF SettingsStart
  <2>2. \A k \in Keys : Seeded(k).secret \in {rows[k].secret, NoSecret, Hash("admin")}
    BY DEF Seeded, Defaults, Object
  <2> QED BY <1>1, <2>1, <2>2
<1>3. ASSUME NEW c \in Clients, PutCommits(c) PROVE StoredSecretsReal'
  <2> DEFINE k == request[c].key
             value == request[c].value
             seen == request[c].seen
             row == IF value.shape = "object" THEN Merged(k, seen, value) ELSE value
  <2>1. /\ request[c].pc = "merging" /\ rows' = [rows EXCEPT ![k] = row] BY <1>3 DEF PutCommits
  <2>2. /\ k \in Keys /\ value \in Offered[k] /\ seen.secret # Placeholder
    BY <1>1, <2>1 DEF SettingsInv, MergesUnderLock
  <2>3. CASE value.shape = "object"
    <3>1. row = Merged(k, seen, value) BY <2>3
    <3>2. value \in Rows BY <2>2, SettingsOK
    <3>3. Merged(k, seen, value).secret \in {seen.secret, Hash(value.secret.of)}
          \/ (Merged(k, seen, value).secret = value.secret /\ value.secret # Placeholder)
      BY <3>2 DEF Merged, Rows
    <3>4. row.secret # Placeholder BY <1>1, <2>2, <3>1, <3>3
    <3> HIDE DEF row
    <3> QED BY <2>1, <2>2, <3>4 DEF SettingsInv, RequestShape
  <2>4. CASE value.shape # "object"
    <3>1. row = value /\ value.secret = NoSecret BY <2>2, <2>4, SettingsOK
    <3> HIDE DEF row
    <3> QED BY <1>1, <2>1, <2>2, <3>1 DEF SettingsInv, RequestShape
  <2> QED BY <2>3, <2>4
<1>4. ASSUME NEW c \in Clients, NEW new \in Passwords, ChangeCommits(c, new) PROVE StoredSecretsReal'
  <2> DEFINE row == Object(request[c].seen.body, Hash(new), rows["admin"].enabled)
  <2>1. rows' = [rows EXCEPT !["admin"] = row] BY <1>4 DEF ChangeCommits
  <2>2. row.secret = Hash(new) BY DEF Object
  <2> HIDE DEF row
  <2> QED BY <1>1, <2>1, <2>2 DEF SettingsInv, RequestShape
<1>5. SettingsReady \/ SettingsCrash \/ UNCHANGED settingsVars \/ SettingsRequest => UNCHANGED rows
  BY DEF SettingsReady, SettingsCrash, settingsVars, SettingsRequest, PutArrives, ChangeVerifies
<1>6. \A c \in Clients :
        PutReads(c) \/ PutFails(c) \/ RefreshReads(c) \/ RefreshApplies(c) => UNCHANGED rows
  BY DEF PutReads, PutFails, RefreshReads, RefreshApplies
<1> QED BY <1>2, <1>3, <1>4, <1>5, <1>6 DEF SettingsChange, SettingsStep

(* What an attempt means to tell is read from the rows; what was told is   *)
(* what it meant to tell.                                                  *)
LEMMA ToldSecretsKept ==
  ASSUME AttemptInv, SecretsInv, AttemptChange \/ UNCHANGED attemptVars
  PROVE  /\ \A a \in Attempts : \A t \in attempt'[a].told : t.config.secret # Placeholder
         /\ MessagesCarrySecret'
<1> DEFINE Real(told) == \A t \in told : t.config.secret # Placeholder
           Goal == /\ \A a \in Attempts : Real(attempt'[a].told)
                   /\ MessagesCarrySecret'
<1> USE DEF SecretsInv, MessagesCarrySecret, AttemptInv
<1>1. \A a, pc : Moves(a, pc) /\ a \in Attempts => \A b \in Attempts : attempt'[b].told = attempt[b].told
  BY MovesBecomes DEF AttemptBecomes
<1>2. \A a, pc, status : Turns(a, pc, status) /\ a \in Attempts =>
        \A b \in Attempts : attempt'[b].told = attempt[b].told
  BY TurnsBecomes DEF AttemptBecomes
<1>3. ASSUME AttemptCrash PROVE Goal
  <2>1. /\ UNCHANGED messages
        /\ attempt' = [a \in Attempts |-> IF attempt[a].pc = "idle" THEN attempt[a]
                                          ELSE [attempt[a] EXCEPT !.pc = "over", !.told = {}]]
    BY <1>3 DEF AttemptCrash
  <2>2. ASSUME NEW a \in Attempts PROVE attempt'[a].told \in {attempt[a].told, {}}
    <3>1. CASE attempt[a].pc = "idle" BY <2>1, <3>1
    <3>2. CASE attempt[a].pc # "idle"
      <4>1. attempt'[a] = [attempt[a] EXCEPT !.pc = "over", !.told = {}] BY <2>1, <3>2
      <4> QED BY <4>1 DEF AttemptShape, IsAttempt
    <3> QED BY <3>1, <3>2
  <2> QED BY <2>1, <2>2
<1>4. ASSUME NEW a \in Attempts,
             BeginAttempt(a) \/ Connects(a) \/ ConnectFails(a) \/ Closes(a) \/ CloseTimesOut(a)
             \/ CloseRaises(a) \/ Commits(a) \/ CommitFails(a) \/ Touches(a) \/ Runs(a)
      PROVE  Goal
  <2>1. UNCHANGED messages
    BY <1>4 DEF BeginAttempt, Connects, ConnectFails, Closes, CloseTimesOut, CloseRaises, Commits,
                CommitFails, Touches, Runs
  <2>2. (\E pc : Moves(a, pc)) \/ (\E pc, status : Turns(a, pc, status))
    BY <1>4 DEF BeginAttempt, Connects, ConnectFails, Closes, CloseTimesOut, CloseRaises, Commits,
                CommitFails, Touches, Runs
  <2> QED BY <1>1, <1>2, <2>1, <2>2
<1>5. ASSUME NEW a \in Attempts, HandlerStops(a) PROVE Goal
  <2>1. attempt' = [attempt EXCEPT ![a] = [@ EXCEPT !.told = {}, !.pc = "over"]]
    <3>1. attempt' = [attempt EXCEPT ![a] = [@ EXCEPT !.pc = "over", !.told = {}]] BY <1>5 DEF HandlerStops
    <3>2. [attempt[a] EXCEPT !.pc = "over", !.told = {}] = [attempt[a] EXCEPT !.told = {}, !.pc = "over"]
      OBVIOUS
    <3> QED BY <3>1, <3>2
  <2>2. AttemptBecomes(a, "over", attempt[a].status, attempt[a].policy, {}) BY <2>1, ToldBecomes
  <2>3. UNCHANGED messages BY <1>5 DEF HandlerStops
  <2> QED BY <2>2, <2>3 DEF AttemptBecomes
<1>6. ASSUME NEW a \in Attempts, Dispatches(a) PROVE Goal
  <2> DEFINE enabled  == {ch \in Channels : rows[ch].enabled = "yes"}
             readable == \A ch \in enabled : rows[ch].shape = "object"
             wanted(policy) == attempt[a].status \in Strategy[policy]
             pc(policy) == IF wanted(policy) /\ readable /\ enabled # {} THEN "sending" ELSE "over"
             told(policy) == IF wanted(policy) /\ readable
                             THEN {[channel |-> ch, config |-> ChannelConfig(ch)] : ch \in enabled} ELSE {}
  <2>1. PICK policy \in Policies :
          attempt' = [attempt EXCEPT ![a] =
                        [@ EXCEPT !.policy = policy, !.pc = pc(policy), !.told = told(policy)]]
    BY <1>6 DEF Dispatches
  <2>2. Real(told(policy)) BY DEF StoredSecretsReal, ChannelConfig, Channels, Keys
  <2>3. UNCHANGED messages BY <1>6 DEF Dispatches
  <2> HIDE DEF pc, told
  <2>4. AttemptBecomes(a, pc(policy), attempt[a].status, policy, told(policy)) BY <2>1, PolicyBecomes
  <2> QED BY <2>2, <2>3, <2>4 DEF AttemptBecomes
<1>7. ASSUME NEW a \in Attempts, Delivers(a) PROVE Goal
  <2>1. PICK to \in attempt[a].told :
          /\ messages' \subseteq messages \cup
               {[attempt |-> a, channel |-> to.channel, secret |-> to.config.secret,
                 status |-> attempt[a].status, policy |-> attempt[a].policy]}
          /\ attempt' = [attempt EXCEPT ![a] =
               [@ EXCEPT !.told = attempt[a].told \ {to}, !.pc = IF attempt[a].told = {to} THEN "over" ELSE "sending"]]
    BY <1>7 DEF Delivers
  <2> DEFINE pc == IF attempt[a].told = {to} THEN "over" ELSE "sending"
             told == attempt[a].told \ {to}
  <2>2. attempt' = [attempt EXCEPT ![a] = [@ EXCEPT !.told = told, !.pc = pc]] BY <2>1
  <2>3. Real(told) OBVIOUS
  <2> HIDE DEF pc, told
  <2>4. AttemptBecomes(a, pc, attempt[a].status, attempt[a].policy, told) BY <2>2, ToldBecomes
  <2> QED BY <2>1, <2>3, <2>4 DEF AttemptBecomes
<1>8. ASSUME NEW a \in Attempts, AttemptEvent(a) PROVE Goal
  <2>1. CASE Cancelled(a) BY <1>2, <2>1 DEF Cancelled
  <2>2. CASE BackgroundCloses(a) BY <2>2 DEF BackgroundCloses
  <2> QED BY <1>8, <2>1, <2>2 DEF AttemptEvent
<1>9. ASSUME UNCHANGED attemptVars PROVE Goal BY <1>9 DEF attemptVars
<1> QED
  <2> HIDE DEF Goal, AttemptInv, SecretsInv
  <2>1. Goal BY <1>3, <1>4, <1>5, <1>6, <1>7, <1>8, <1>9 DEF AttemptChange, AttemptRequest, AttemptStep
  <2> QED BY <2>1 DEF Goal

(* No channel is ever sent the placeholder: it is in no row, whatever PUTs *)
(* echo it, and the messages are read from the rows.                       *)
THEOREM SecretsReachChannels == Spec => []MessagesCarrySecret
<1>1. Init => SecretsInv
  <2>1. NoRow.secret = NoSecret /\ NoSecret # Placeholder
    <3>1. NoRow.secret = NoSecret /\ NoSecret.form = "none" /\ Placeholder.form = "placeholder"
      BY DEF NoRow, Object, NoSecret, Placeholder
    <3> QED BY <3>1
  <2> QED BY <2>1 DEF Init, SettingsInit, AttemptInit, AttemptIdle, SecretsInv, StoredSecretsReal,
                      MessagesCarrySecret
<1>2. SettingsInv /\ AttemptInv /\ SecretsInv /\ [Next]_vars => SecretsInv'
  <2> SUFFICES ASSUME SettingsInv, AttemptInv, SecretsInv, [Next]_vars PROVE SecretsInv'
    OBVIOUS
  <2>1. StoredSecretsReal' BY Composed, StoredSecretsKept DEF SecretsInv
  <2> QED BY <2>1, Composed, ToldSecretsKept DEF SecretsInv
<1>3. SecretsInv => MessagesCarrySecret BY DEF SecretsInv
<1> QED BY <1>1, <1>2, <1>3, SettingsAlways, AttemptAlways, PTL DEF Spec
=============================================================================
