----------------------------- MODULE Escalation -----------------------------
(***************************************************************************)
(* EscalationEngine.Escalate (internal/reporter/escalation.go): with no     *)
(* escalation config it returns at once; otherwise it sends a report to     *)
(* the channel named by channelName (or, when that is empty, by the         *)
(* target), parses the timeout (5 minutes when it does not parse), and      *)
(* selects between the run's context and the timer.  On the timer it        *)
(* returns TimedOut with the OnTimeout policy.                              *)
(*                                                                         *)
(* Time is counted in ticks of the wait; the run's context may be          *)
(* cancelled at any moment by the runner, the drain or the deadline.       *)
(***************************************************************************)
EXTENDS Integers

CONSTANTS
  Configs,       \* EscalationSpec values: [target, channelName, timeout, onTimeout]
  NoEscalation,  \* model value: Guardrails.Escalation == nil
  EnvChannels,   \* the environment's channels: name -> [type, token]
  Durations,     \* timeout string -> ticks, for the strings that parse
  DefaultTicks   \* the 5-minute default, in ticks

ASSUME NoEscalation \notin Configs

VARIABLES
  cfg,       \* the agent's escalation config
  pc,        \* "start" | "wait" | "done": where Escalate is
  timeout,   \* the parsed timeout, in ticks
  elapsed,   \* ticks since the wait began, up to the timeout
  ctxDone,   \* the run's context is cancelled
  result,    \* EscalationResult
  accepted   \* history: the channel answered the report with a 2xx status

vars == <<cfg, pc, timeout, elapsed, ctxDone, result, accepted>>

\* EscalationTarget and TimeoutAction: the enums the API server admits
EscalationTargets == {"parent", "channel", "human"}
TimeoutActions == {"cancel", "proceed", "retry"}

\* an EscalationSpec as admitted: target is required and onTimeout, when
\* omitted, defaults to cancel, so both hold one of their enum values
ValidConfig(c) == c.target \in EscalationTargets /\ c.onTimeout \in TimeoutActions

NoResult == [sent |-> FALSE, timedOut |-> FALSE, policy |-> "", error |-> "none"]

\* time.ParseDuration, falling back to the default on error
ParseTimeout(s) == IF s \in DOMAIN Durations THEN Durations[s] ELSE DefaultTicks

\* newChannelFromSpec builds a channel for these types only
SupportedTypes == {"slack", "telegram", "webhook"}

\* Reporter.New: every environment channel of a supported type is
\* registered; the others are logged and skipped
Registered == {n \in DOMAIN EnvChannels : EnvChannels[n].type \in SupportedTypes}

\* Reporter.HasChannel
HasChannel(n) == n \in Registered

\* One POST built with NewRequestWithContext: the status of its answer,
\* or 0 when client.Do returns an error (no answer within the client's
\* timeout, or the context is cancelled): a success, a redirect and a
\* server error stand for the status classes
PostStatuses == IF ctxDone THEN {0} ELSE {0, 200, 302, 500}

\* a Send's result: nil (ok) or an error, and the status it got
SendResult(ok, status) == [ok |-> ok, status |-> status]

\* SlackChannel.Send: an error unless the status is 200
SlackSend == {SendResult(s = 200, s) : s \in PostStatuses}

\* WebhookChannel.Send: an error only for a status of 400 or above
WebhookSend == {SendResult(s # 0 /\ s < 400, s) : s \in PostStatuses}

\* TelegramChannel.Send fails before any request while no bot token is
\* set, and otherwise unless the status is 200
TelegramSend(n) ==
  IF EnvChannels[n].token THEN {SendResult(s = 200, s) : s \in PostStatuses}
  ELSE {SendResult(FALSE, 0)}

\* Reporter.Send: the registered channel's Send; TRUE when it returned nil
ReporterSend(n) ==
  CASE EnvChannels[n].type = "slack"    -> SlackSend
    [] EnvChannels[n].type = "telegram" -> TelegramSend(n)
    [] EnvChannels[n].type = "webhook"  -> WebhookSend

\* the target channel: channelName, or the target when it is empty
ChannelName(c) == IF c.channelName = "" THEN c.target ELSE c.channelName

\* time.After has fired: a zero or negative duration fires at once
Expired == elapsed >= timeout

----------------------------------------------------------------------------
\* No escalation config: skip, with an empty result.
Skip ==
  /\ pc = "start"
  /\ cfg = NoEscalation
  /\ pc' = "done"
  /\ UNCHANGED <<cfg, timeout, elapsed, ctxDone, result, accepted>>

\* Build the report and send it through the Reporter when the channel is
\* registered; otherwise only log.  Then parse the timeout and start
\* waiting.
Send ==
  /\ pc = "start"
  /\ cfg # NoEscalation
  /\ IF HasChannel(ChannelName(cfg))
       THEN \E o \in ReporterSend(ChannelName(cfg)) :
              /\ result' = [result EXCEPT !.sent = o.ok,
                                          !.error = IF o.ok THEN "none" ELSE "send"]
              /\ accepted' = (o.status \in 200..299)
       ELSE UNCHANGED <<result, accepted>>
  /\ timeout' = ParseTimeout(cfg.timeout)
  /\ pc' = "wait"
  /\ UNCHANGED <<cfg, elapsed, ctxDone>>

TickUnguarded == \* mutant: time runs on past the timer
  /\ pc = "wait"
  /\ ~ctxDone
  /\ elapsed' = elapsed + 1
  /\ UNCHANGED <<cfg, pc, timeout, ctxDone, result, accepted>>

\* The wait goes on while the timer has not fired.  A cancelled context
\* wakes the parked select well within one tick, so no tick passes
\* between a cancellation and the select's return.
Tick ==
  /\ pc = "wait"
  /\ ~ctxDone
  /\ ~Expired
  /\ elapsed' = elapsed + 1
  /\ UNCHANGED <<cfg, pc, timeout, ctxDone, result, accepted>>

\* The runner, the drain or the run deadline cancels the run's context.
Cancel ==
  /\ ~ctxDone
  /\ ctxDone' = TRUE
  /\ UNCHANGED <<cfg, pc, timeout, elapsed, result, accepted>>

\* select: ctx.Done() is ready; the context's error is returned.
Cancelled ==
  /\ pc = "wait"
  /\ ctxDone
  /\ result' = [result EXCEPT !.error = "cancelled"]
  /\ pc' = "done"
  /\ UNCHANGED <<cfg, timeout, elapsed, ctxDone, accepted>>

TimerDropped == \* mutant: the select waits for a response that never comes
  /\ FALSE
  /\ UNCHANGED vars

\* select: the timer is ready; the timeout policy is applied.
TimedOut ==
  /\ pc = "wait"
  /\ Expired
  /\ result' = [result EXCEPT !.timedOut = TRUE, !.policy = cfg.onTimeout]
  /\ pc' = "done"
  /\ UNCHANGED <<cfg, timeout, elapsed, ctxDone, accepted>>

\* Escalate has returned.
Returned ==
  /\ pc = "done"
  /\ UNCHANGED vars

----------------------------------------------------------------------------
Init ==
  /\ cfg \in Configs \cup {NoEscalation}
  /\ cfg # NoEscalation => ValidConfig(cfg)
  /\ pc = "start"
  /\ timeout = 0
  /\ elapsed = 0
  /\ ctxDone = FALSE
  /\ result = NoResult
  /\ accepted = FALSE

Next == Skip \/ Send \/ Tick \/ Cancel \/ Cancelled \/ TimedOut \/ Returned

\* The goroutine runs, and Go's runtime fires timers and wakes a select
\* whose case is ready; a cancellation is the environment's choice.
Fairness ==
  /\ WF_vars(Skip) /\ WF_vars(Send) /\ WF_vars(Tick)
  /\ WF_vars(Cancelled) /\ WF_vars(TimedOut)

Spec == Init /\ [][Next]_vars /\ Fairness

----------------------------------------------------------------------------
TypeOK ==
  /\ cfg \in Configs \cup {NoEscalation}
  /\ pc \in {"start", "wait", "done"}
  /\ timeout \in Int
  /\ elapsed \in 0..(IF timeout > 0 THEN timeout ELSE 0)
  /\ ctxDone \in BOOLEAN /\ accepted \in BOOLEAN
  /\ result.sent \in BOOLEAN /\ result.timedOut \in BOOLEAN
  /\ result.error \in {"none", "send", "cancelled"}

\* Spec 4.5: Escalate returns, whether or not its report could be
\* delivered and whatever its timeout string says.
EscalateReturns == <>(pc = "done")

=============================================================================
