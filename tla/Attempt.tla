------------------------------- MODULE Attempt --------------------------------
(***************************************************************************)
(* One attempt from the inside (module Scheduler knows its outcome only):  *)
(* the browser session opened for it, the provider's run, the cleanup, the *)
(* commit of the terminal status, and the event handler that tells the     *)
(* notification channels.  The browser is configured from the cache of     *)
(* Settings, the channels from its rows.                                   *)
(***************************************************************************)
EXTENDS Settings

CONSTANTS Attempts, Policies   \* Policies: the notification policies tasks have

Ended == {"completed", "failed", "timeout", "cancelled"}

(* The statuses each strategy of notification_config asks to be told.      *)
Strategy ==
  [default |-> {"failed", "timeout"}, never |-> {}, always |-> Ended,
   on_success |-> {"completed"}, on_failure |-> {"failed", "timeout", "cancelled"},
   malformed |-> {}]

ASSUME AttemptOK == Policies \subseteq DOMAIN Strategy

VARIABLES
  attempt,    \* the attempts in progress
  recorded,   \* the committed status, "open" until there is one
  session,    \* the browser session: "none", "open", "closing" in the
              \* background, "dropped" to the garbage collector
  messages    \* what the channels were told

attemptVars == <<attempt, recorded, session, messages>>

AttemptIdle == [pc |-> "idle", status |-> "open", policy |-> "never", told |-> {}]

AttemptInit ==
  /\ attempt = [a \in Attempts |-> AttemptIdle]
  /\ recorded = [a \in Attempts |-> "open"]
  /\ session = [a \in Attempts |-> "none"]
  /\ messages = {}

Moves(a, pc)        == attempt' = [attempt EXCEPT ![a].pc = pc]
Turns(a, pc, status) == attempt' = [attempt EXCEPT ![a] = [@ EXCEPT !.pc = pc, !.status = status]]
Session(a, s)        == session' = [session EXCEPT ![a] = s]

-----------------------------------------------------------------------------
(* execute: the session.                                                   *)

(* Without a browser the provider runs at once; a driver built of a cached *)
(* configuration that has no endpoint raises.                              *)
BeginAttempt(a) ==
  /\ process = "up" /\ attempt[a].pc = "idle"
  /\ \/ Moves(a, "running")
     \/ cache.body # "keyless" /\ Moves(a, "opening")
     \/ cache.body = "keyless" /\ Turns(a, "finalizing", "failed")
  /\ UNCHANGED <<recorded, session, messages>>

Connects(a) ==
  /\ attempt[a].pc = "opening"
  /\ Moves(a, "running") /\ Session(a, "open")
  /\ UNCHANGED <<recorded, messages>>

ConnectFails(a) ==
  /\ attempt[a].pc = "opening"
  /\ Turns(a, "finalizing", "failed")
  /\ UNCHANGED <<recorded, session, messages>>

\* Mutants of AfterRun: there is always something to close; a timeout leaves
\* its session to others.
AfterRunCloses(a, status) == "closing"

AfterRunTimedOut(a, status) ==
  IF session[a] = "open" /\ status # "timeout" THEN "closing" ELSE "finalizing"

AfterRun(a, status) == IF session[a] = "open" THEN "closing" ELSE "finalizing"

(* The provider answers, raises (BaseProvider.run makes that a failure) or *)
(* is stopped by the timeout of the task.                                  *)
Runs(a) ==
  /\ attempt[a].pc = "running"
  /\ \E status \in {"completed", "failed", "timeout"} : Turns(a, AfterRun(a, status), status)
  /\ UNCHANGED <<recorded, session, messages>>

Closes(a) ==
  /\ attempt[a].pc = "closing" /\ session[a] = "open"
  /\ Moves(a, "finalizing") /\ Session(a, "none")
  /\ UNCHANGED <<recorded, messages>>

(* cleanup_timeout: the shielded close goes on without the attempt.        *)
CloseTimesOut(a) ==
  /\ "browser" \in Faults
  /\ attempt[a].pc = "closing" /\ session[a] = "open"
  /\ Moves(a, "finalizing") /\ Session(a, "closing")
  /\ UNCHANGED <<recorded, messages>>

(* An exception of the close is not caught: the unit of work rolls back.   *)
CloseRaises(a) ==
  /\ "browser" \in Faults
  /\ attempt[a].pc = "closing" /\ session[a] = "open"
  /\ Moves(a, "over") /\ Session(a, "none")
  /\ UNCHANGED <<recorded, messages>>

BackgroundCloses(a) ==
  /\ session[a] \in {"closing", "dropped"}
  /\ Session(a, "none")
  /\ UNCHANGED <<attempt, recorded, messages>>

(* Cancelled while opening, running or closing: nothing of the attempt is  *)
(* committed.  connect undoes itself; a running session is not closed by   *)
(* the attempt, its generator is dropped; a close goes on.                 *)
Cancelled(a) ==
  /\ attempt[a].pc \in {"opening", "running", "closing"}
  /\ Turns(a, "cancelling", "cancelled")
  /\ session' = [session EXCEPT ![a] =
       IF @ # "open" THEN @ ELSE IF attempt[a].pc = "closing" THEN "closing" ELSE "dropped"]
  /\ UNCHANGED <<recorded, messages>>

-----------------------------------------------------------------------------
(* The commit of the status, by the attempt or by cancel_execution.        *)
Commits(a) ==
  /\ attempt[a].pc \in {"finalizing", "cancelling"}
  /\ recorded' = [recorded EXCEPT ![a] = attempt[a].status]
  /\ Moves(a, "touching")
  /\ UNCHANGED <<session, messages>>

\* Mutant of AfterFailedCommit: the event is emitted all the same.
AfterFailedCommitGoesOn == "touching"

AfterFailedCommit == "over"

CommitFails(a) ==
  /\ "database" \in Faults
  /\ attempt[a].pc \in {"finalizing", "cancelling"}
  /\ Moves(a, AfterFailedCommit)
  /\ UNCHANGED <<recorded, session, messages>>

-----------------------------------------------------------------------------
(* handle_event of TaskRunFinalizer.                                       *)

(* _touch_last_run is a transaction of its own (module TaskTable). *)
Touches(a) ==
  /\ attempt[a].pc = "touching"
  /\ Moves(a, "dispatching")
  /\ UNCHANGED <<recorded, session, messages>>

\* Mutant of ChannelConfig: the configuration is what the API shows.
ChannelConfigShown(ch) == Redact(rows[ch])

ChannelConfig(ch) == rows[ch]

(* One transaction reads the policy and the enabled channels; a channel    *)
(* that is not an object raises.                                           *)
Dispatches(a) ==
  /\ attempt[a].pc = "dispatching"
  /\ \E policy \in Policies :
       LET wanted  == attempt[a].status \in Strategy[policy]
           enabled == {ch \in Channels : rows[ch].enabled = "yes"}
           readable == \A ch \in enabled : rows[ch].shape = "object"
       IN  attempt' = [attempt EXCEPT ![a] = [@ EXCEPT
             !.policy = policy,
             !.pc = IF wanted /\ readable /\ enabled # {} THEN "sending" ELSE "over",
             !.told = IF wanted /\ readable
                      THEN {[channel |-> ch, config |-> ChannelConfig(ch)] : ch \in enabled} ELSE {}]]
  /\ UNCHANGED <<recorded, session, messages>>

(* gather: the channels are told in any order, each may refuse. *)
Delivers(a) ==
  /\ attempt[a].pc = "sending"
  /\ \E to \in attempt[a].told :
       /\ \/ messages' = messages \cup
               {[attempt |-> a, channel |-> to.channel, secret |-> to.config.secret,
                 status |-> attempt[a].status, policy |-> attempt[a].policy]}
          \/ "channel" \in Faults /\ UNCHANGED messages
       /\ attempt' = [attempt EXCEPT ![a] =
            [@ EXCEPT !.told = attempt[a].told \ {to},
                      !.pc = IF attempt[a].told = {to} THEN "over" ELSE "sending"]]
  /\ UNCHANGED <<recorded, session>>

(* A database error, the 30 s of EventBus.emit, or a cancellation.         *)
HandlerStops(a) ==
  /\ attempt[a].pc \in {"touching", "dispatching", "sending"}
  /\ attempt' = [attempt EXCEPT ![a] = [@ EXCEPT !.pc = "over", !.told = {}]]
  /\ UNCHANGED <<recorded, session, messages>>

AttemptCrash ==
  /\ attempt' = [a \in Attempts |->
       IF attempt[a].pc = "idle" THEN attempt[a]
       ELSE [attempt[a] EXCEPT !.pc = "over", !.told = {}]]
  /\ session' = [a \in Attempts |-> "none"]
  /\ UNCHANGED <<recorded, messages>>

-----------------------------------------------------------------------------
AttemptRequest == \E a \in Attempts : BeginAttempt(a)

AttemptStep(a) ==
  \/ Connects(a) \/ ConnectFails(a) \/ Runs(a)
  \/ Closes(a) \/ CloseTimesOut(a) \/ CloseRaises(a)
  \/ Commits(a) \/ CommitFails(a)
  \/ Touches(a) \/ Dispatches(a) \/ Delivers(a) \/ HandlerStops(a)

(* What nobody in the attempt does: it is cancelled, a session is closed.  *)
AttemptEvent(a) == Cancelled(a) \/ BackgroundCloses(a)

-----------------------------------------------------------------------------
(* Properties.                                                             *)
AttemptTypeOK ==
  /\ \A a \in Attempts :
       /\ attempt[a].pc \in {"idle", "opening", "running", "closing", "finalizing", "cancelling",
                             "touching", "dispatching", "sending", "over"}
       /\ attempt[a].status \in Ended \cup {"open"} /\ attempt[a].policy \in Policies \cup {"never"}
  /\ recorded \in [Attempts -> Ended \cup {"open"}]
  /\ session \in [Attempts -> {"none", "open", "closing", "dropped"}]
  /\ \A m \in messages : m.attempt \in Attempts /\ m.channel \in Channels

(* A browser session is open only while its attempt runs or closes it; it  *)
(* is left to the garbage collector only if the attempt was cancelled      *)
(* (runtime/browser/base.py:44 "guarantees teardown on any exit path",     *)
(* attempt.py:136-158).                                                    *)
OpenSessionsOwned ==
  \A a \in Attempts :
    /\ session[a] = "open" => attempt[a].pc \in {"running", "closing"}
    /\ session[a] = "dropped" => attempt[a].status = "cancelled"

(* What a channel was told is what the row says, for good: the status was  *)
(* committed before, and it is one the task's strategy asks to be told     *)
(* (runner.py:74, finalizer.py:46).                                        *)
NotificationsTruthful ==
  \A m \in messages : recorded[m.attempt] = m.status /\ m.status \in Strategy[m.policy]

(* A message is sent with the secret that is stored, never with the        *)
(* placeholder the API shows in its place (finalizer.py:61 reads the row;  *)
(* the cache the browser driver is given does not, see DriverSeesRow).     *)
MessagesCarrySecret == \A m \in messages : m.secret # Placeholder

(* Every attempt that begins ends, its cleanup and its notifications       *)
(* included, whatever the browser and the channels do (attempt.py:148,     *)
(* event.py:41).                                                           *)
AttemptsEnd == []<>(\A a \in Attempts : attempt[a].pc \in {"idle", "over"})
=============================================================================
