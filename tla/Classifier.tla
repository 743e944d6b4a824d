----------------------------- MODULE Classifier -----------------------------
(***************************************************************************)
(* Action classification of the cloud CLI tools (internal/tools): the AWS   *)
(* and Azure tools build the key "<service>.<command>" by string            *)
(* concatenation and look it up in three static tables, data mutation       *)
(* first, then destructive, then service mutation; a key in no table is a   *)
(* read.  Data mutations come back Blocked.  The DNS tools classify every   *)
(* call as a read.  Each step is one proposed call from the LLM, with the   *)
(* tool's arguments drawn from small sets of words.                         *)
(***************************************************************************)
EXTENDS Integers, Sequences, FiniteSets, FiniteSetsExt

CONSTANTS
  AwsServices,  \* values the LLM may put in args["service"]
  AwsCommands,  \* ... in args["command"] of aws.cli
  AzGroups,     \* ... in args["group"]
  AzCommands    \* ... in args["command"] of az.cli

\* ActionTier, ordered as spec 4.3 orders the tiers (data mutation is tier 4)
TierRead == 1
TierServiceMutation == 2
TierDestructiveMutation == 3
TierDataMutation == 4
Tiers == TierRead..TierDataMutation

VARIABLES
  call,     \* the last proposed call: [tool, key]
  verdict   \* its ActionClassification: [tier, blocked]

vars == <<call, verdict>>

----------------------------------------------------------------------------
(* classifyAWSAction's tables                                              *)
AwsDestructive ==
  {"ec2.terminate-instances", "ec2.delete-security-group", "ec2.delete-vpc",
   "ec2.delete-subnet", "rds.delete-db-instance", "rds.delete-db-cluster",
   "iam.delete-user", "iam.delete-role", "iam.delete-policy",
   "iam.put-user-policy", "iam.attach-role-policy", "iam.create-access-key",
   "lambda.delete-function", "ecs.delete-cluster", "ecs.delete-service",
   "cloudformation.delete-stack"}

AwsDataMutation ==
  {"s3.rb", "s3.rm", "s3api.delete-bucket", "s3api.delete-object",
   "s3api.delete-objects", "dynamodb.delete-table", "dynamodb.delete-item",
   "rds.delete-db-snapshot", "rds.delete-db-cluster-snapshot"}

AwsServiceMutation ==
  {"ec2.start-instances", "ec2.stop-instances", "ec2.reboot-instances",
   "ec2.create-security-group", "ec2.authorize-security-group-ingress",
   "ec2.revoke-security-group-ingress", "ecs.update-service",
   "lambda.update-function-code", "lambda.update-function-configuration",
   "rds.reboot-db-instance", "rds.modify-db-instance",
   "autoscaling.set-desired-capacity", "autoscaling.update-auto-scaling-group"}

(* classifyAzureAction's tables; "sql.db.delete" is in two of them         *)
AzDestructive ==
  {"vm.delete", "group.delete", "aks.delete", "network.vnet.delete",
   "network.nsg.delete", "sql.server.delete", "sql.db.delete",
   "keyvault.delete", "ad.sp.delete", "role.assignment.delete",
   "role.definition.delete", "functionapp.delete", "webapp.delete",
   "cosmosdb.delete"}

AzDataMutation ==
  {"storage.account.delete", "storage.blob.delete", "storage.container.delete",
   "sql.db.delete", "cosmosdb.collection.delete", "cosmosdb.database.delete",
   "keyvault.secret.delete", "keyvault.key.delete", "backup.vault.delete"}

AzServiceMutation ==
  {"vm.start", "vm.stop", "vm.deallocate", "vm.restart", "vm.resize",
   "aks.scale", "aks.upgrade", "webapp.restart", "functionapp.restart",
   "network.nsg.rule.create", "network.nsg.rule.delete",
   "network.nsg.rule.update", "sql.db.update", "role.assignment.create",
   "ad.sp.create"}

KeyNoDot(service, command) == service \o command \* mutant: the separator is left out

\* key := service + "." + command
Key(service, command) == service \o "." \o command

ClassifyDestructiveFirst(key, data, destructive, service) == \* mutant: tables checked in the wrong order
  CASE key \in destructive -> [tier |-> TierDestructiveMutation, blocked |-> FALSE]
    [] key \in data        -> [tier |-> TierDataMutation, blocked |-> TRUE]
    [] key \in service     -> [tier |-> TierServiceMutation, blocked |-> FALSE]
    [] OTHER               -> [tier |-> TierRead, blocked |-> FALSE]

ClassifyNoServiceTable(key, data, destructive, service) == \* mutant: the service-mutation lookup is missing
  CASE key \in data        -> [tier |-> TierDataMutation, blocked |-> TRUE]
    [] key \in destructive -> [tier |-> TierDestructiveMutation, blocked |-> FALSE]
    [] OTHER               -> [tier |-> TierRead, blocked |-> FALSE]

\* The lookup shared by classifyAWSAction and classifyAzureAction: data
\* mutation (Blocked) before destructive before service mutation; a key in
\* no table defaults to read.
Classify(key, data, destructive, service) ==
  CASE key \in data        -> [tier |-> TierDataMutation, blocked |-> TRUE]
    [] key \in destructive -> [tier |-> TierDestructiveMutation, blocked |-> FALSE]
    [] key \in service     -> [tier |-> TierServiceMutation, blocked |-> FALSE]
    [] OTHER               -> [tier |-> TierRead, blocked |-> FALSE]

classifyAWSAction(service, command) ==
  Classify(Key(service, command), AwsDataMutation, AwsDestructive, AwsServiceMutation)

classifyAzureAction(group, command) ==
  Classify(Key(group, command), AzDataMutation, AzDestructive, AzServiceMutation)

----------------------------------------------------------------------------
(* The package's classification tests: each case is a (service, command)  *)
(* or (group, command) pair, the tier the test wants and whether it also  *)
(* asserts Blocked (only the data-mutation tests do).                      *)

TestCase(svc, cmd, tier, blocked) ==
  [service |-> svc, command |-> cmd, tier |-> tier, blocked |-> blocked]

\* TestClassifyAWSAction_{Read,ServiceMutation,Destructive,DataMutation}
AwsClassifyTests ==
  {TestCase(c[1], c[2], TierRead, FALSE) :
     c \in {<<"ec2", "describe-instances">>, <<"s3", "ls">>, <<"iam", "list-users">>,
            <<"rds", "describe-db-instances">>, <<"cloudwatch", "get-metric-data">>,
            <<"sts", "get-caller-identity">>}}
  \cup {TestCase(c[1], c[2], TierServiceMutation, FALSE) :
     c \in {<<"ec2", "start-instances">>, <<"ec2", "stop-instances">>,
            <<"ec2", "reboot-instances">>, <<"ecs", "update-service">>,
            <<"rds", "reboot-db-instance">>}}
  \cup {TestCase(c[1], c[2], TierDestructiveMutation, FALSE) :
     c \in {<<"ec2", "terminate-instances">>, <<"iam", "delete-user">>,
            <<"iam", "delete-role">>, <<"rds", "delete-db-instance">>,
            <<"lambda", "delete-function">>}}
  \cup {TestCase(c[1], c[2], TierDataMutation, TRUE) :
     c \in {<<"s3", "rb">>, <<"s3", "rm">>, <<"s3api", "delete-object">>,
            <<"dynamodb", "delete-table">>, <<"dynamodb", "delete-item">>}}

\* TestClassifyAzureAction_{Read,ServiceMutation,Destructive,DataMutation}
AzClassifyTests ==
  {TestCase(c[1], c[2], TierRead, FALSE) :
     c \in {<<"vm", "list">>, <<"vm", "show">>, <<"storage", "account list">>,
            <<"network", "nsg list">>, <<"aks", "list">>}}
  \cup {TestCase(c[1], c[2], TierServiceMutation, FALSE) :
     c \in {<<"vm", "start">>, <<"vm", "stop">>, <<"vm", "deallocate">>,
            <<"vm", "restart">>, <<"aks", "scale">>, <<"webapp", "restart">>}}
  \cup {TestCase(c[1], c[2], TierDestructiveMutation, FALSE) :
     c \in {<<"vm", "delete">>, <<"group", "delete">>, <<"aks", "delete">>,
            <<"keyvault", "delete">>}}
  \cup {TestCase(c[1], c[2], TierDataMutation, TRUE) :
     c \in {<<"storage", "account.delete">>, <<"storage", "blob.delete">>,
            <<"storage", "container.delete">>, <<"cosmosdb", "database.delete">>,
            <<"keyvault", "secret.delete">>}}

----------------------------------------------------------------------------
(* One proposed call per step                                              *)

\* AWSCLITool.ClassifyAction
ClassifyAWS(service, command) ==
  /\ call' = [tool |-> "aws", key |-> Key(service, command)]
  /\ verdict' = classifyAWSAction(service, command)

\* AzureCLITool.ClassifyAction
ClassifyAzure(group, command) ==
  /\ call' = [tool |-> "azure", key |-> Key(group, command)]
  /\ verdict' = classifyAzureAction(group, command)

ClassifyDNSNoTier(tool) == \* mutant: the literal omits Tier, leaving its zero value
  /\ call' = [tool |-> "dns", key |-> tool]
  /\ verdict' = [tier |-> 0, blocked |-> FALSE]

\* DNSQueryTool.ClassifyAction and DNSReverseTool.ClassifyAction
ClassifyDNS(tool) ==
  /\ call' = [tool |-> "dns", key |-> tool]
  /\ verdict' = [tier |-> TierRead, blocked |-> FALSE]

\* no call proposed yet
NoCall == [tool |-> "none", key |-> ""]

Init ==
  /\ call = NoCall
  /\ verdict = [tier |-> TierRead, blocked |-> FALSE]

Next ==
  \/ \E s \in AwsServices, c \in AwsCommands : ClassifyAWS(s, c)
  \/ \E g \in AzGroups, c \in AzCommands : ClassifyAzure(g, c)
  \/ \E t \in {"dns.query", "dns.reverse"} : ClassifyDNS(t)

Spec == Init /\ [][Next]_vars

----------------------------------------------------------------------------
Tables == [aws |-> <<AwsDataMutation, AwsDestructive, AwsServiceMutation>>,
           azure |-> <<AzDataMutation, AzDestructive, AzServiceMutation>>,
           dns |-> <<{}, {}, {}>>]

\* the tier each of a tool's three tables stands for, in Tables' order
TableTier == <<TierDataMutation, TierDestructiveMutation, TierServiceMutation>>

\* the tiers of the tables of `tool` that list `key`
Listed(tool, key) == {TableTier[i] : i \in {j \in 1..3 : key \in Tables[tool][j]}}

TypeOK ==
  /\ call.tool \in {"none", "aws", "azure", "dns"}
  /\ verdict \in [tier : Tiers, blocked : BOOLEAN]

\* Spec 4.3: every call is classified into the strongest tier any of its
\* tool's tables gives its "<service>.<command>" key (read when none does),
\* and exactly the data mutations come back Blocked, whatever order the
\* lookups run in (Azure's "sql.db.delete" is both destructive and data).
ClassifiesHighestTier ==
  call.tool # "none" =>
    /\ verdict.tier = Max(Listed(call.tool, call.key) \cup {TierRead})
    /\ verdict.blocked <=> verdict.tier = TierDataMutation

\* The classifiers agree with every case of the package's unit tests: the
\* tier each test wants, and Blocked where a data-mutation test asserts it.
\* The tests only reach classifyAWSAction and classifyAzureAction through
\* the key the tools build, so this also pins the key's form.
ClassifierMatchesTests ==
  /\ \A t \in AwsClassifyTests :
       LET v == classifyAWSAction(t.service, t.command)
       IN v.tier = t.tier /\ (t.blocked => v.blocked)
  /\ \A t \in AzClassifyTests :
       LET v == classifyAzureAction(t.service, t.command)
       IN v.tier = t.tier /\ (t.blocked => v.blocked)

=============================================================================
