---------------------------- MODULE MC_Guardrail ----------------------------
EXTENDS Guardrail, TLC

CONSTANTS NoEsc, NoUser

\* a data mutation, a destructive and a service mutation, a read, and a
\* mutating verb no table lists
MCAwsServices == {"s3", "ec2"}
MCAwsCommands == {"rm", "terminate-instances", "start-instances", "put-object"}

\* sql.db.delete is in both the destructive and the data-mutation table
MCAzGroups == {"sql", "vm"}
MCAzCommands == {"db.delete", "delete", "list"}

MCConfigs ==
  [target : {"channel"}, channelName : {"", "ops", "tg"}, timeout : {"300s", "0s"},
   onTimeout : {"cancel", "proceed", "retry"}]

\* a slack channel, a telegram channel whose bot token nothing set, and
\* a channel of a type newChannelFromSpec rejects
MCEnvChannels ==
  ("ops" :> [type |-> "slack", token |-> FALSE]) @@
  ("tg" :> [type |-> "telegram", token |-> FALSE]) @@
  ("pager" :> [type |-> "pagerduty", token |-> FALSE])

MCDurations == ("300s" :> 2) @@ ("0s" :> 0)

MCApprovalModes == {"none", "mutation-gate", "every-action"}

\* the classifier unit tests are a constant check, stated in the initial
\* states (before any call is proposed)
Unstarted == proposals = 0 /\ dispatched = {}

\* Spec 4.3 and the package tests: the classifiers give every tested
\* (service, command) pair the tier its test wants.
ClassifierMatchesTests == Unstarted => C!ClassifierMatchesTests

RB == INSTANCE Rbac

\* the RBAC checks are constant too; they are stated in one initial state
\* only, since they do not depend on the escalation config, the autonomy
\* or the approval mode
OneInit == Unstarted /\ cfg = NoEscalation /\ autonomy = "observe" /\ mode = "none"

\* two authenticated users and no user: alice (ops group, a dept claim)
\* and bob (no groups, no claims)
MCUsers ==
  {NoUser,
   [email |-> <<"alice", "@ex">>, sub |-> <<"s1">>, groups |-> {<<"ops">>},
    claims |-> [dept |-> <<"eng">>]],
   [email |-> <<"bob", "@ex">>, sub |-> <<"s2">>, groups |-> {},
    claims |-> [team |-> <<"eng">>]]}

\* one matcher of each kind: an email prefix, any group, an exact subject,
\* a raw claim; and a policy with no subjects
MCSubjects ==
  {{[claim |-> "email", value |-> <<"alice", "*">>]},
   {[claim |-> "groups", value |-> <<"*">>]},
   {[claim |-> "sub", value |-> <<"s2">>]},
   {[claim |-> "dept", value |-> <<"eng">>]},
   {}}

\* no restriction, an agents prefix, one namespace
MCScopes ==
  {[agents |-> {}, tags |-> {}, namespaces |-> {}],
   [agents |-> {<<"prod", "*">>}, tags |-> {}, namespaces |-> {}],
   [agents |-> {}, tags |-> {}, namespaces |-> {<<"default">>}]}

\* the three roles and one the engine does not know
MCPolicies ==
  [subjects : MCSubjects, role : {"viewer", "operator", "admin", "auditor"}, scope : MCScopes]

\* engines of up to two policies
MCEngines == {<<>>} \cup {<<p>> : p \in MCPolicies} \cup {<<p, q>> : p, q \in MCPolicies}

\* a view action, an operator action and an admin-only action; no
\* resource, resources inside and outside each scope
MCRbacActions == {"runs:view", "agents:run", "config:write"}
MCResources == {<<>>, <<"prod", "-web">>, <<"default">>, <<"dev">>}

\* The RBAC engine never allows a request that no policy of the engine
\* grants: whatever the policies and their order, an allowed decision has
\* a policy matching the user whose role permits the action and, for a
\* named resource, whose scope holds it (Rbac Authorize).
AuthorizeSound ==
  OneInit =>
    \A e \in MCEngines, u \in MCUsers, a \in MCRbacActions, r \in MCResources :
      RB!Authorize(e, u, a, r).allowed =>
        \E i \in DOMAIN e :
          /\ u # NoUser /\ RB!MatchesSubject(u, e[i].subjects)
          /\ RB!RolePermits(e[i].role, a)
          /\ r # <<>> => RB!InScope(e[i].scope, r)

\* The order the policies are listed in changes no decision unless two
\* policies both match the user with the same rank: the engine picks the
\* highest-ranked matching policy wherever it stands (Rbac BestOf, the
\* loop of Authorize).
AuthorizeOrderInsensitive ==
  OneInit =>
    \A p, q \in MCPolicies, u \in MCUsers \ {NoUser}, a \in MCRbacActions, r \in MCResources :
      ~(/\ RB!MatchesSubject(u, p.subjects) /\ RB!MatchesSubject(u, q.subjects)
        /\ RB!RoleRank(p.role) = RB!RoleRank(q.role))
      => RB!Authorize(<<p, q>>, u, a, r) = RB!Authorize(<<q, p>>, u, a, r)

SC == INSTANCE Scaffold

\* one line of stdin per prompt: the agent name left to its default or
\* "web", the domain left empty, blank, one of the five or unknown, the
\* skill the default or custom; the other prompts take their defaults
MCInitInputs ==
  {[name |-> n, description |-> "", namespace |-> "", autonomy |-> "", schedule |-> "",
    modelTier |-> "", domain |-> d, skill |-> k] :
     n \in {"", "web"}, d \in {"", " ", "ssh", "http", "sql", "dns", "ftp"}, k \in {"", "custom"}}

\* one invocation of legator init: with or without a directory argument
\* ("web", the other agent name's directory), and where it stops
MCInvocations ==
  [args : {<<>>, <<"web">>}, input : MCInitInputs, fail : SC!FailPoints]

\* A directory written by an init that ran to the end is a working agent,
\* whatever an earlier init that failed part way left in it: its four
\* files are the ones this init generated; every action of the sheet is a
\* read of a tool agent.yaml allows; agent.yaml names the environment
\* file's environment in its namespace; and an ssh or sql tool has the
\* credential it needs.  (handleInit, toolsForDomain, generateActionsYAML,
\* generateEnvironmentYAML)
ScaffoldConsistent ==
  OneInit =>
    \A first \in MCInvocations, last \in {i \in MCInvocations : i.fail = "none"} :
      LET disk == SC!RunAll(<<>>, <<first, last>>)
          a == SC!Answers(last.input)
          dir == SC!OutputDir(last.args, a)
          file(f) == disk[<<dir, f>>]
          agent == file("agent.yaml")
          env == file("environment.yaml")
          creds == {c.type : c \in env.credentials}
      IN /\ \A i \in DOMAIN SC!Files : file(SC!Files[i]) = SC!Generated(a)[i]
         /\ \A x \in SC!Range(file("skill/actions.yaml")) :
              x.tier = "read" /\ x.tool \in SC!Range(agent.allowedTools)
         /\ agent.environmentRef = env.name /\ agent.namespace = env.namespace
         /\ "ssh.exec" \in SC!Range(agent.allowedTools) => "ssh-private-key" \in creds
         /\ "sql.query" \in SC!Range(agent.allowedTools) => "vault-database" \in creds

MCAutonomies == {"observe", "recommend", "automate-safe", "automate-destructive"}
=============================================================================
