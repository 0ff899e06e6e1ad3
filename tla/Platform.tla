------------------------------- MODULE Platform -------------------------------
(***************************************************************************)
(* The process as its composition root assembles it: settings, plugins,    *)
(* attempts and a probe, started in order by one _initialize, serving      *)
(* requests once that is over, and losing together what is not stored when *)
(* it is killed.  Attempts take the browser configuration from the cache   *)
(* that settings refresh, the channels from the rows; a start restores the *)
(* packages before it serves.                                              *)
(*                                                                         *)
(* workload says which kinds of request a behaviour receives.              *)
(***************************************************************************)
EXTENDS Plugins, Attempt, Probe

CONSTANTS
  Workloads,    \* bound: the kinds of request that come together, and how many
  MaxCrashes    \* bound: kills in one behaviour

ASSUME PlatformOK ==
  /\ \A w \in Workloads :
       /\ w.kinds \subseteq {"settings", "sources", "files", "packages", "attempts", "probe"}
       /\ w.requests \in Nat
  /\ MaxCrashes \in Nat

VARIABLES workload, requests, crashes

boundVars == <<workload, requests, crashes>>
vars == <<settingsVars, pluginsVars, attemptVars, probeVars, boundVars>>

Init ==
  /\ SettingsInit /\ PluginsInit /\ AttemptInit /\ ProbeInit
  /\ workload \in Workloads
  /\ requests = 0 /\ crashes = 0

-----------------------------------------------------------------------------
(* Life of the process: _initialize up to and past the restoration of the  *)
(* packages, and a kill at any point.                                      *)
Create ==
  /\ SettingsStart
  /\ IF process' = "restoring" THEN PluginsStart ELSE UNCHANGED pluginsVars
  /\ UNCHANGED <<attemptVars, probeVars, boundVars>>

Serve ==
  /\ SettingsReady /\ PluginsReady
  /\ UNCHANGED <<attemptVars, probeVars, boundVars>>

Crash ==
  /\ crashes < MaxCrashes
  /\ crashes' = crashes + 1
  /\ SettingsCrash /\ PluginsCrash /\ AttemptCrash /\ ProbeCrash
  /\ UNCHANGED <<workload, requests>>

-----------------------------------------------------------------------------
(* Requests, while the process serves, and the steps that answer them.     *)
(* By hand: the sources that no request would store. *)
ByHand ==
  /\ "files" \in workload.kinds
  /\ \E n \in Names, x \in Unparsable : PlaceByHand(n, x)
  /\ UNCHANGED <<settingsVars, attemptVars, probeVars, boundVars>>

Request ==
  /\ process = "up" /\ requests < workload.requests
  /\ requests' = requests + 1
  /\ UNCHANGED <<workload, crashes>>
  /\ \/ /\ "settings" \in workload.kinds /\ SettingsRequest
        /\ UNCHANGED <<pluginsVars, attemptVars, probeVars>>
     \/ /\ "sources" \in workload.kinds /\ SourceRequest
        /\ UNCHANGED <<settingsVars, attemptVars, probeVars>>
     \/ /\ "packages" \in workload.kinds /\ PackageRequest
        /\ UNCHANGED <<settingsVars, attemptVars, probeVars>>
     \/ /\ "attempts" \in workload.kinds /\ AttemptRequest
        /\ UNCHANGED <<settingsVars, pluginsVars, probeVars>>
     \/ /\ "probe" \in workload.kinds /\ BeginProbe
        /\ UNCHANGED <<settingsVars, pluginsVars, attemptVars>>

SettingsMoves(c) == SettingsStep(c) /\ UNCHANGED <<pluginsVars, attemptVars, probeVars, boundVars>>
SourceMoves(c)   == SourceStep(c) /\ UNCHANGED <<settingsVars, attemptVars, probeVars, boundVars>>
PackageMoves(c)  == PackageStep(c) /\ UNCHANGED <<settingsVars, attemptVars, probeVars, boundVars>>
AttemptMoves(a)  == AttemptStep(a) /\ UNCHANGED <<settingsVars, pluginsVars, probeVars, boundVars>>
AttemptEvents(a) == AttemptEvent(a) /\ UNCHANGED <<settingsVars, pluginsVars, probeVars, boundVars>>
ProbeMoves       == ProbeStep /\ UNCHANGED <<settingsVars, pluginsVars, attemptVars, boundVars>>
ProbeEvents      == InterruptProbe /\ UNCHANGED <<settingsVars, pluginsVars, attemptVars, boundVars>>

Next ==
  \/ Create \/ Serve \/ Crash \/ ByHand \/ Request
  \/ \E c \in Clients : SettingsMoves(c) \/ SourceMoves(c)
  \/ \E c \in Operators : PackageMoves(c)
  \/ \E a \in Attempts : AttemptMoves(a) \/ AttemptEvents(a)
  \/ ProbeMoves \/ ProbeEvents

(* asyncio runs every coroutine that can go on; the database, uv and the   *)
(* browser answer or time out.  Nobody need start a process that died.     *)
Fairness ==
  /\ \A c \in Clients : WF_vars(SettingsMoves(c))
  /\ \A c \in Operators : WF_vars(PackageMoves(c))
  /\ \A a \in Attempts : WF_vars(AttemptMoves(a))

Spec == Init /\ [][Next]_vars /\ Fairness

-----------------------------------------------------------------------------
PlatformTypeOK == SettingsTypeOK /\ PluginsTypeOK /\ AttemptTypeOK /\ ProbeTypeOK
=============================================================================
