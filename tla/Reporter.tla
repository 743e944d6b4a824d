------------------------------ MODULE Reporter ------------------------------
(***************************************************************************)
(* The run-end side of internal/reporter: FromLegatorRun's severity for a  *)
(* run's phase, ShouldReport's decision from the agent's ReportingSpec,    *)
(* and SendToAll's delivery to every registered channel, which goes on     *)
(* past a failed Send and returns one error per failed channel.            *)
(***************************************************************************)

CONSTANTS
  Channels,    \* the Reporter's registered channel names
  NoReporting  \* model value: the agent has no ReportingSpec (nil)

\* ReportAction
ReportActions == {"silent", "log", "notify", "escalate"}

\* ReportingSpec: the action for each outcome
ReportingSpecs == [onSuccess : ReportActions, onFailure : ReportActions, onFinding : ReportActions]

\* FromLegatorRun: the report's severity for the run's phase
Severity(phase) ==
  CASE phase = "Succeeded" -> "success"
    [] phase = "Failed" -> "failure"
    [] phase \in {"Escalated", "Blocked"} -> "escalation"
    [] OTHER -> "info"

ShouldReportEscalatedOnly(reporting, phase, hasFindings) == \* mutant: Blocked not listed with Escalated
  LET r == IF reporting = NoReporting
           THEN [onSuccess |-> "silent", onFailure |-> "escalate", onFinding |-> "log"]
           ELSE reporting
      decide(a) == [send |-> a # "silent", action |-> a]
  IN CASE phase = "Succeeded" /\ hasFindings -> decide(r.onFinding)
       [] phase = "Succeeded" -> decide(r.onSuccess)
       [] phase = "Failed" -> decide(r.onFailure)
       [] phase = "Escalated" -> [send |-> TRUE, action |-> "escalate"]
       [] OTHER -> [send |-> FALSE, action |-> "silent"]

\* ShouldReport: a nil spec defaults to silent / escalate / log; a run
\* with findings follows onFinding; escalated and blocked runs always
\* escalate; any other phase is silent.
ShouldReport(reporting, phase, hasFindings) ==
  LET r == IF reporting = NoReporting
           THEN [onSuccess |-> "silent", onFailure |-> "escalate", onFinding |-> "log"]
           ELSE reporting
      decide(a) == [send |-> a # "silent", action |-> a]
  IN CASE phase = "Succeeded" /\ hasFindings -> decide(r.onFinding)
       [] phase = "Succeeded" -> decide(r.onSuccess)
       [] phase = "Failed" -> decide(r.onFailure)
       [] phase \in {"Escalated", "Blocked"} -> [send |-> TRUE, action |-> "escalate"]
       [] OTHER -> [send |-> FALSE, action |-> "silent"]

\* SendToAll: with the channels in `failed` failing their Send, the
\* report reaches every other channel and one error names each failure.
SendToAll(failed, severity) ==
  [delivered |-> {[ch |-> c, severity |-> severity] : c \in Channels \ failed},
   errs |-> failed]
=============================================================================
