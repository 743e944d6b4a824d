CONSTANTS
  AwsServices <- MCAwsServices
  AwsCommands <- MCAwsCommands
  AzGroups <- MCAzGroups
  AzCommands <- MCAzCommands
SPECIFICATION Spec
INVARIANTS FailClosed
