-------------------------------- MODULE Probe ---------------------------------
(***************************************************************************)
(* The probe provider checks its targets one after the other.  A check     *)
(* acquires the resources of its kind (session, client, engine,            *)
(* connection, channel), uses them, and releases them in reverse order in  *)
(* finally blocks.  Every step may fail, and may be interrupted: by the    *)
(* timeout of the attempt, or by a cancellation.                           *)
(***************************************************************************)
EXTENDS Naturals, Sequences

CONSTANTS
  Kinds,          \* kinds of check a probe may be configured for
  Targets,        \* number of accounts
  MaxInterrupts   \* bound: interruptions of one probe

(* The resources of each kind, in the order they are acquired.             *)
Resources ==
  [HTTP |-> <<"session">>, Redis |-> <<"client">>, MySQL |-> <<"engine", "connection">>,
   PostgreSQL |-> <<"connection">>, RabbitMQ |-> <<"connection", "channel">>,
   MongoDB |-> <<"client">>]

(* What becomes of an exception: it is a result of the target inside the   *)
(* try, _check_http excepted, which catches those of its client only; and  *)
(* it escapes from a finally.                                              *)
Caught(kind) == IF kind = "HTTP" THEN {"fail", "escapes"} ELSE {"fail"}

(* The resources a with statement releases inside the try.                 *)
Guarded == {<<"HTTP", "session">>, <<"MySQL", "connection">>}

ASSUME ProbeOK ==
  /\ Kinds \subseteq DOMAIN Resources
  /\ Targets \in Nat \ {0} /\ MaxInterrupts \in Nat

VARIABLE probe

probeVars == <<probe>>

ProbeIdle == [pc |-> "idle", kind |-> "HTTP", held |-> <<>>, raised |-> "no",
              outcome |-> "none", results |-> <<>>, verdict |-> "none", interrupts |-> 0]

ProbeInit == probe = ProbeIdle

BeginProbe ==
  /\ probe.pc = "idle"
  /\ \E k \in Kinds : probe' = [ProbeIdle EXCEPT !.pc = "checking", !.kind = k]

Needed    == Resources[probe.kind]
Releases(outcome) == probe' = [probe EXCEPT !.pc = "releasing", !.outcome = outcome]

AcquireResource ==
  /\ probe.pc = "checking" /\ Len(probe.held) < Len(Needed)
  /\ probe' = [probe EXCEPT !.held = Append(@, Needed[Len(@) + 1])]

AcquireFails ==
  /\ probe.pc = "checking" /\ Len(probe.held) < Len(Needed)
  /\ \E outcome \in Caught(probe.kind) : Releases(outcome)

(* The answer is the expected one, or another: a status, a reply to SET.   *)
Answers ==
  /\ probe.pc = "checking" /\ Len(probe.held) = Len(Needed)
  /\ \E outcome \in {"ok"} \cup (IF probe.kind \in {"HTTP", "Redis"} THEN {"fail"} ELSE {}) :
       Releases(outcome)

UseFails ==
  /\ probe.pc = "checking" /\ Len(probe.held) = Len(Needed)
  /\ \E outcome \in Caught(probe.kind) : Releases(outcome)

\* Mutant of AfterRaise: an exception of the channel's close skips the connection.
AfterRaiseGivesUp == "over"

(* The finally in the finally: the connection is closed all the same.      *)
AfterRaise == "releasing"

Last(s) == s[Len(s)]
Front(s) == SubSeq(s, 1, Len(s) - 1)

(* The last resource is released; what its close raises replaces what was  *)
(* under way, an interruption included.                                    *)
ReleaseResource ==
  /\ probe.pc = "releasing" /\ probe.held # <<>>
  /\ \/ probe' = [probe EXCEPT !.held = Front(@)]
     \/ /\ probe.kind # "MongoDB"
        /\ \E outcome \in IF <<probe.kind, Last(probe.held)>> \in Guarded
                          THEN Caught(probe.kind) ELSE {"escapes"} :
             probe' = [probe EXCEPT !.held = Front(@), !.pc = AfterRaise, !.raised = "yes",
                                    !.outcome = outcome]

(* TimeoutError or CancelledError at an await; the finally blocks run.     *)
InterruptProbe ==
  /\ probe.interrupts < MaxInterrupts
  /\ \/ probe.pc = "checking"
        /\ probe' = [probe EXCEPT !.pc = "releasing", !.outcome = "interrupted", !.interrupts = @ + 1]
     \/ probe.pc = "releasing" /\ probe.held # <<>> /\ probe.kind # "MongoDB"
        /\ probe' = [probe EXCEPT !.held = Front(@), !.outcome = "interrupted", !.interrupts = @ + 1]

\* Mutants of AfterTarget: one target too many; the first target that fails
\* ends the probe.
AfterTargetPastEnd(results) == IF Len(results) > Targets THEN "over" ELSE "checking"

AfterTargetFailFast(results) ==
  IF Len(results) = Targets \/ Last(results) = "fail" THEN "over" ELSE "checking"

AfterTarget(results) == IF Len(results) = Targets THEN "over" ELSE "checking"

(* _run_targets: the result is kept and the next target checked. *)
NextTarget ==
  /\ probe.pc = "releasing" /\ probe.held = <<>> /\ probe.outcome \in {"ok", "fail"}
  /\ LET results == Append(probe.results, probe.outcome)
         over    == AfterTarget(results) = "over"
     IN  probe' = [probe EXCEPT
           !.pc = AfterTarget(results), !.results = results, !.outcome = "none",
           !.verdict = IF ~over THEN "none"
                       ELSE IF \A i \in 1..Len(results) : results[i] = "ok" THEN "ok" ELSE "fail"]

(* An exception that escapes ends the probe; run makes it one failure.     *)
ProbeRaises ==
  /\ probe.pc = "releasing" /\ probe.held = <<>> /\ probe.outcome \in {"escapes", "interrupted"}
  /\ probe' = [probe EXCEPT !.pc = "over", !.verdict = probe.outcome]

ProbeCrash == probe' = ProbeIdle

ProbeStep ==
  \/ AcquireResource \/ AcquireFails \/ Answers \/ UseFails
  \/ ReleaseResource \/ NextTarget \/ ProbeRaises

-----------------------------------------------------------------------------
(* Properties.                                                             *)
ProbeTypeOK ==
  /\ probe.pc \in {"idle", "checking", "releasing", "over"}
  /\ probe.kind \in DOMAIN Resources
  /\ Len(probe.results) <= Targets
  /\ probe.verdict \in {"none", "ok", "fail", "escapes", "interrupted"}
  /\ probe.interrupts \in 0..MaxInterrupts /\ probe.raised \in {"yes", "no"}

(* When a probe is over, every resource it acquired has been released (or  *)
(* its release was attempted), whatever failed, raised or was interrupted  *)
(* on the way (the finally blocks of main.py:164-285).                     *)
NothingLeftOpen == probe.pc = "over" => probe.held = <<>>

(* A probe that answers has exactly one result for each target, says ok    *)
(* exactly when every target is, and was not interrupted on the way,       *)
(* unless the exception of a close took the interruption's place           *)
(* (main.py:73-98, 141, 198).                                              *)
VerdictEarned ==
  probe.verdict \in {"ok", "fail"} =>
    /\ probe.interrupts > 0 => probe.raised = "yes"
    /\ Len(probe.results) = Targets
    /\ probe.verdict = "ok" <=> \A i \in 1..Targets : probe.results[i] = "ok"
=============================================================================
