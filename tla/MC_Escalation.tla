---------------------------- MODULE MC_Escalation ----------------------------
EXTENDS Escalation, TLC

CONSTANTS NoEsc

\* targets and channel names that resolve to a registered channel or not;
\* timeouts that parse to a positive or zero duration, or do not parse
MCConfigs ==
  [target : {"channel", "human"}, channelName : {"", "ops", "tg", "pager", "hook"},
   timeout : {"300s", "0s", "5 minutes"}, onTimeout : {"cancel", "proceed", "retry"}]

\* a slack channel, a telegram channel whose bot token nothing set, a
\* generic webhook, and a channel of a type newChannelFromSpec rejects
MCEnvChannels ==
  ("ops" :> [type |-> "slack", token |-> FALSE]) @@
  ("hook" :> [type |-> "webhook", token |-> FALSE]) @@
  ("tg" :> [type |-> "telegram", token |-> FALSE]) @@
  ("pager" :> [type |-> "pagerduty", token |-> FALSE])

\* one tick stands for 150s: "300s" parses to two ticks, the default is two
MCDurations == ("300s" :> 2) @@ ("0s" :> 0)
=============================================================================
