---------------------------- MODULE MC_Classifier ----------------------------
EXTENDS Classifier

\* every service and command word of the AWS tables, plus read verbs and
\* a mutating verb no table lists
MCAwsServices == {"ec2", "rds", "iam", "s3", "s3api", "dynamodb"}
MCAwsCommands == {"terminate-instances", "delete-vpc", "start-instances",
                  "describe-instances", "delete-db-instance", "delete-db-snapshot",
                  "modify-db-instance", "delete-user", "create-access-key",
                  "rm", "ls", "delete-object", "put-object", "delete-table",
                  "put-item"}

\* Azure groups, and commands that are one word or several joined by "."
MCAzGroups == {"vm", "sql", "storage", "keyvault", "network"}
MCAzCommands == {"delete", "list", "start", "db.delete", "db.update",
                 "blob.delete", "blob.upload", "secret.delete", "nsg.delete",
                 "nsg.rule.create", "server.delete", "account.delete"}

\* mutating commands of the two CLIs that none of the tables lists: an S3
\* object upload, a DynamoDB item write and an Azure blob upload
MCUnlistedMutations == {"s3api.put-object", "dynamodb.put-item", "storage.blob.upload"}

\* Spec 4.3: classification is fail-closed: an unknown verb is classified
\* destructive mutation.  A mutating aws or az command that no table lists
\* must therefore never come back as a read.
FailClosed ==
  call.tool \in {"aws", "azure"} /\ call.key \in MCUnlistedMutations =>
    /\ Listed(call.tool, call.key) = {}
    /\ verdict.tier >= TierDestructiveMutation
=============================================================================
