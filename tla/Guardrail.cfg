CONSTANTS
  NoEsc = NoEsc
  NoUser = NoUser
  NoEscalation <- NoEsc
  AwsServices <- MCAwsServices
  AwsCommands <- MCAwsCommands
  AzGroups <- MCAzGroups
  AzCommands <- MCAzCommands
  Configs <- MCConfigs
  EnvChannels <- MCEnvChannels
  Durations <- MCDurations
  DefaultTicks = 2
  Autonomies <- MCAutonomies
  MaxProposals = 2
  ApprovalModes <- MCApprovalModes
  ApprovalTicks = 1
SPECIFICATION Spec
INVARIANTS TypeOK ClassifiesHighestTier DataNeverDispatched ClassifierMatchesTests AuthorizeSound AuthorizeOrderInsensitive ScaffoldConsistent
PROPERTIES EscalationResolves ApprovalRefines ApprovalAnswered
